---------------------------- MODULE Spec2Model ----------------------------
(***************************************************************************)
(* A model of the Odin ReAct control loop (odin.agent.core.Agent) with its *)
(* collaborators: the response parser (odin.agent.parser), the safety      *)
(* controller (odin.action.safety), the memory store (odin.agent.memory)   *)
(* and the action controller (odin.action.controller).                     *)
(*                                                                         *)
(* JSON values are tagged records: [t |-> "int", i |-> 5],                 *)
(* [t |-> "str", s |-> "up"], [t |-> "bool", b |-> TRUE],                  *)
(* [t |-> "list", l |-> <<...>>], [t |-> "dict", d |-> f], [t |-> "null"]. *)
(* A JSON object is a function from its keys to tagged values.             *)
(* Time is counted in whole seconds.                                       *)
(***************************************************************************)
EXTENDS Integers, Sequences, FiniteSets, TLC

\* ------------------------------------------------------------------ bounds

\* AgentConfig.max_steps ranges over 0..MaxStepsBound.
MaxStepsBound == 2

\* The wall clock (time.time()) when the agent is constructed.
StartTime == 100

\* How many tasks are run one after another on the same Agent.
MaxRuns == 2

\* AgentConfig.max_steps of an Agent that is given several tasks.
RerunSteps == 1

\* AgentMemory's caps (max_messages, max_screenshots) range over 1..MaxCap.
MaxCap == 3

\* How many add_* calls a memory store seen on its own receives.
MaxAdds == 5

\* SafetyConfig.max_actions_per_minute of a Safety Governor seen on its own
\* ranges over 1..MaxCeiling.
MaxCeiling == 2

\* How far the clock of a Safety Governor seen on its own runs.
MaxElapsed == 120

\* The most keys a hotkey handed to is_dangerous_action holds.
MaxKeys == 3

\* The most pieces a text handed to the response parser is made of.
MaxSegments == 3

\* The steps of a run long enough to fill the conversation history.
LongSteps == 22

\* The most steps of a run whose oracle may ask for hotkeys.
HotkeySteps == 2

\* How far beyond the screen the coordinates handed to a function called on
\* its own reach.
Reach == 11

\* ------------------------------------------------- constants of the program

\* safety.py: entries older than 60 seconds leave the rolling window.
Window == 60

\* memory.py: AgentMemory.max_messages and AgentMemory.max_screenshots.
max_messages == 20

max_screenshots == 5

\* pyautogui.size() as read by SafetyController and ActionController.
screen_width == 100

screen_height == 80

\* ----------------------------------------------------------- JSON values

JInt(n) == [t |-> "int", i |-> n]

JStr(x) == [t |-> "str", s |-> x]

JBool(x) == [t |-> "bool", b |-> x]

JList(x) == [t |-> "list", l |-> x]

JDict(f) == [t |-> "dict", d |-> f]

JNull == [t |-> "null"]

EmptyDict == [k \in {} |-> JNull]

\* Python's isinstance(v, int): bool is a subclass of int.
IsInt(v) == v.t \in {"int", "bool"}

\* The number a Python int (or bool) stands for in arithmetic and comparisons.
NumVal(v) == IF v.t = "bool" THEN (IF v.b THEN 1 ELSE 0) ELSE v.i

\* str.lower() on the strings the model uses.
Lower(x) ==
    CASE x = "CLICK" -> "click"
      [] x = "Done" -> "done"
      [] x = "UP" -> "up"
      [] x = "Down" -> "down"
      [] x = "Command" -> "command"
      [] x = "Q" -> "q"
      [] x = "DELETE" -> "delete"
      [] OTHER -> x

\* dict.get(key, default)
Get(f, key, default) == IF key \in DOMAIN f THEN f[key] ELSE default

\* ------------------------------------------------------- response parser

\* The fixed enum of action kinds (valid_actions).
valid_actions ==
    {"click", "double_click", "move", "type", "hotkey", "scroll", "wait", "done"}

\* An oracle response is the sequence of decode attempts json.raw_decode makes,
\* one per "{" of the text in scan order: a decode error, or the object decoded.
BadJson == [bad |-> TRUE]

Obj(f) == [bad |-> FALSE, obj |-> f]

ParseFail(e) == [ok |-> FALSE, error |-> e]

\* The decode attempts an object written in the text gives rise to: the
\* object itself at its own "{", then, further right, those of the object
\* nested in it (the objects of the model nest at most one object each).
RECURSIVE ObjectAttempts(_)
ObjectAttempts(f) ==
    LET nested == { k \in DOMAIN f : f[k].t = "dict" }
    IN  <<Obj(f)>> \o (IF nested = {} THEN <<>>
                       ELSE ObjectAttempts(f[CHOOSE k \in nested : TRUE].d))

\* The decode attempts of one piece of text: none for prose without "{", a
\* decode error for a "{" that opens no JSON object, and those of an object.
SegmentAttempts(seg) ==
    CASE seg.kind = "prose" -> <<>>
      [] seg.kind = "junk" -> <<BadJson>>
      [] seg.kind = "object" -> ObjectAttempts(seg.value)

\* re.finditer(r"\{", response) with raw_decode at each match: the decode
\* attempts of a text made of pieces, in scan order.
RECURSIVE DecodeAttempts(_)
DecodeAttempts(text) ==
    IF text = <<>> THEN <<>>
    ELSE SegmentAttempts(Head(text)) \o DecodeAttempts(Tail(text))

\* A faulty _extract_json_object: the first decoded object is returned,
\* whether it has an "action" key or not.
ExtractJsonObjectFirstValid(response) ==
    LET parsed_objects == SelectSeq(response, LAMBDA c : ~c.bad)
    IN  IF parsed_objects = <<>>
        THEN IF Len(response) > 0
             THEN ParseFail("Invalid JSON")
             ELSE ParseFail("No JSON found in response")
        ELSE [ok |-> TRUE, data |-> parsed_objects[1].obj]

\* _extract_json_object: the first decoded object that has an "action" key,
\* else the first decoded object; ParseError when nothing decodes.
ExtractJsonObject(response) ==
    LET parsed_objects == SelectSeq(response, LAMBDA c : ~c.bad)
        with_action == SelectSeq(parsed_objects, LAMBDA c : "action" \in DOMAIN c.obj)
    IN  IF parsed_objects = <<>>
        THEN IF Len(response) > 0
             THEN ParseFail("Invalid JSON")
             ELSE ParseFail("No JSON found in response")
        ELSE IF with_action # <<>>
             THEN [ok |-> TRUE, data |-> with_action[1].obj]
             ELSE [ok |-> TRUE, data |-> parsed_objects[1].obj]

\* parse_llm_response: a ParsedAction (action, params) or a ParseError.
ParseLLMResponse(response) ==
    LET ex == ExtractJsonObject(response)
    IN  IF ~ex.ok THEN ex
        ELSE LET data == ex.data
             IN  IF "action" \notin DOMAIN data
                 THEN ParseFail("Missing 'action' field in response")
                 ELSE IF data["action"].t # "str"
                 THEN ParseFail("Field 'action' must be a string")
                 ELSE LET action == Lower(data["action"].s)
                          params == Get(data, "params", JDict(EmptyDict))
                      IN  IF action \notin valid_actions
                          THEN ParseFail("Unknown action")
                          ELSE IF params.t # "dict"
                          THEN ParseFail("Field 'params' must be an object")
                          ELSE [ok |-> TRUE, action |-> action, params |-> params.d]

\* required_params of validate_action_params.
required_params(action) ==
    CASE action \in {"click", "double_click", "move"} -> <<"x", "y">>
      [] action = "type" -> <<"text">>
      [] action = "hotkey" -> <<"keys">>
      [] action = "scroll" -> <<"direction">>
      [] action = "wait" -> <<"seconds">>
      [] action = "done" -> <<"result">>
      [] OTHER -> <<>>

Verdict(valid, error) == [raised |-> FALSE, valid |-> valid, error |-> error]

\* The scroll branch of validate_action_params: params.get("direction", "")
\* .lower() raises AttributeError on a value that is not a string.
ScrollDirectionCheck(params) ==
    LET direction == Get(params, "direction", JStr(""))
    IN  IF direction.t # "str"
        THEN [raised |-> TRUE, valid |-> FALSE, error |-> "AttributeError"]
        ELSE IF Lower(direction.s) \notin {"up", "down", "left", "right"}
        THEN Verdict(FALSE, "Direction must be 'up', 'down', 'left', or 'right'")
        ELSE Verdict(TRUE, "None")

\* validate_action_params: (valid, error), or the exception it raises.
ValidateActionParams(action, params) ==
    LET required == required_params(action)
        missing == SelectSeq(required, LAMBDA p : p \notin DOMAIN params)
    IN  IF missing # <<>>
        THEN Verdict(FALSE, "Missing required parameter")
        ELSE IF /\ action \in {"click", "double_click", "move"}
                /\ ~(IsInt(params["x"]) /\ IsInt(params["y"]))
        THEN Verdict(FALSE, "Coordinates x and y must be integers")
        ELSE IF action = "hotkey" /\ params["keys"].t # "list"
        THEN Verdict(FALSE, "Keys must be a list")
        ELSE IF action = "scroll"
        THEN ScrollDirectionCheck(params)
        ELSE Verdict(TRUE, "None")

\* ------------------------------------------------------ safety controller

\* A faulty validate_coordinates: the upper bounds are tested with >.
ValidateCoordinatesInclusive(margin, x, y) ==
    IF x < margin \/ x > screen_width - margin
    THEN [ok |-> FALSE, error |-> "X coordinate is too close to screen edge"]
    ELSE IF y < margin \/ y > screen_height - margin
    THEN [ok |-> FALSE, error |-> "Y coordinate is too close to screen edge"]
    ELSE [ok |-> TRUE, error |-> "None"]

\* validate_coordinates: margin <= x < screen_width - margin, likewise for y.
ValidateCoordinates(margin, x, y) ==
    IF x < margin \/ x >= screen_width - margin
    THEN [ok |-> FALSE, error |-> "X coordinate is too close to screen edge"]
    ELSE IF y < margin \/ y >= screen_height - margin
    THEN [ok |-> FALSE, error |-> "Y coordinate is too close to screen edge"]
    ELSE [ok |-> TRUE, error |-> "None"]

\* The clean-up of check_rate_limit: the recorded times younger than a minute.
PruneActionTimes(times, current_time) ==
    SelectSeq(times, LAMBDA t : current_time - t < Window)

\* A faulty check_rate_limit: the minimum delay is not looked at.
CheckRateLimitNoDelay(cfg, times, last, current_time) ==
    IF Len(PruneActionTimes(times, current_time)) >= cfg.max_actions_per_minute
    THEN [ok |-> FALSE, error |-> "Rate limit exceeded: too many actions per minute"]
    ELSE [ok |-> TRUE, error |-> "None"]

\* A faulty check_rate_limit: the ceiling is tested with > and admits one
\* action more.
CheckRateLimitOffByOne(cfg, times, last, current_time) ==
    IF Len(PruneActionTimes(times, current_time)) > cfg.max_actions_per_minute
    THEN [ok |-> FALSE, error |-> "Rate limit exceeded: too many actions per minute"]
    ELSE IF current_time - last < cfg.min_action_delay
    THEN [ok |-> FALSE, error |-> "Minimum delay between actions not met"]
    ELSE [ok |-> TRUE, error |-> "None"]

\* check_rate_limit after the clean-up: the ceiling, then the minimum delay.
CheckRateLimit(cfg, times, last, current_time) ==
    IF Len(PruneActionTimes(times, current_time)) >= cfg.max_actions_per_minute
    THEN [ok |-> FALSE, error |-> "Rate limit exceeded: too many actions per minute"]
    ELSE IF current_time - last < cfg.min_action_delay
    THEN [ok |-> FALSE, error |-> "Minimum delay between actions not met"]
    ELSE [ok |-> TRUE, error |-> "None"]

\* The destructive key combinations is_dangerous_action knows.
dangerous_combos ==
    {{"command", "q"}, {"command", "delete"}, {"command", "shift", "delete"},
     {"control", "alt", "delete"}}

\* A faulty is_dangerous_action: a combination must match the keys exactly.
IsDangerousActionExact(action, params) ==
    IF action # "hotkey" THEN [raised |-> FALSE, dangerous |-> FALSE]
    ELSE LET keys == Get(params, "keys", JList(<<>>)).l
         IN  IF \E i \in 1..Len(keys) : keys[i].t # "str"
             THEN [raised |-> TRUE, dangerous |-> FALSE]
             ELSE LET key_set == { Lower(keys[i].s) : i \in 1..Len(keys) }
                  IN  [raised |-> FALSE,
                       dangerous |-> \E combo \in dangerous_combos : combo = key_set]

\* is_dangerous_action: for a hotkey, whether some destructive combination is
\* a subset of set(k.lower() for k in keys); keys defaults to []. k.lower()
\* raises AttributeError for a key that is no string.
IsDangerousAction(action, params) ==
    IF action # "hotkey" THEN [raised |-> FALSE, dangerous |-> FALSE]
    ELSE LET keys == Get(params, "keys", JList(<<>>)).l
         IN  IF \E i \in 1..Len(keys) : keys[i].t # "str"
             THEN [raised |-> TRUE, dangerous |-> FALSE]
             ELSE LET key_set == { Lower(keys[i].s) : i \in 1..Len(keys) }
                  IN  [raised |-> FALSE,
                       dangerous |-> \E combo \in dangerous_combos : combo \subseteq key_set]

\* A faulty validate_action: a hotkey that is_dangerous_action flags is denied.
ValidateActionBlocksDangerous(cfg, times, last, current_time, action, params) ==
    LET rate == CheckRateLimit(cfg, times, last, current_time)
    IN  IF ~rate.ok THEN rate
        ELSE IF IsDangerousAction(action, params).dangerous
        THEN [ok |-> FALSE, error |-> "Dangerous action"]
        ELSE IF action \in {"click", "double_click", "move"}
        THEN ValidateCoordinates(cfg.bounds_margin,
                                 NumVal(Get(params, "x", JInt(0))),
                                 NumVal(Get(params, "y", JInt(0))))
        ELSE [ok |-> TRUE, error |-> "None"]

\* validate_action: the rate limit, then the coordinates of click, double_click
\* and move (a drag never reaches it: the parser knows no drag).
ValidateAction(cfg, times, last, current_time, action, params) ==
    LET rate == CheckRateLimit(cfg, times, last, current_time)
    IN  IF ~rate.ok THEN rate
        ELSE IF action \in {"click", "double_click", "move"}
        THEN ValidateCoordinates(cfg.bounds_margin,
                                 NumVal(Get(params, "x", JInt(0))),
                                 NumVal(Get(params, "y", JInt(0))))
        ELSE [ok |-> TRUE, error |-> "None"]

\* ------------------------------------------------------------ memory store

\* Python's seq[start:] for any integer start: a negative start counts from
\* the end, and a start outside the list is clipped to it.
SliceFrom(seq, start) ==
    LET n == Len(seq)
        from == IF start < 0
                THEN (IF n + start < 0 THEN 0 ELSE n + start)
                ELSE (IF start > n THEN n ELSE start)
    IN  SubSeq(seq, from + 1, n)

\* Python's seq[-k:]: the start is the integer -k, so seq[-0:] is seq[0:].
LastItems(seq, k) == SliceFrom(seq, 0 - k)

\* A faulty add_message: beyond the cap the newest message is dropped.
AddMessageCapKeepsOldest(msgs, cap, role, content) ==
    LET all == Append(msgs, [role |-> role, content |-> content])
    IN  IF Len(all) > cap THEN SubSeq(all, 1, cap) ELSE all

\* add_message with max_messages = cap: append, then, if the list is longer
\* than cap, keep [messages[0]] + messages[-(cap - 1):] when the first entry
\* has role system, messages[-cap:] otherwise.
AddMessageCap(msgs, cap, role, content) ==
    LET all == Append(msgs, [role |-> role, content |-> content])
    IN  IF Len(all) > cap
        THEN IF all[1].role = "system"
             THEN <<all[1]>> \o LastItems(all, cap - 1)
             ELSE LastItems(all, cap)
        ELSE all

\* add_message of the Agent's AgentMemory(), whose cap is the default.
AddMessage(msgs, role, content) == AddMessageCap(msgs, max_messages, role, content)

\* A faulty add_action: the oldest record is dropped beyond MaxCap records.
AddActionCapped(acts, action, success, message) ==
    LET all == Append(acts, [action |-> action, success |-> success,
                             result_message |-> message])
    IN  IF Len(all) > MaxCap THEN Tail(all) ELSE all

\* add_action: append an ActionRecord, with no trimming.
AddAction(acts, action, success, message) ==
    Append(acts, [action |-> action, success |-> success, result_message |-> message])

\* A faulty add_screenshot: beyond the cap the newest screenshot is dropped.
AddScreenshotCapKeepsOldest(shots, cap, image) ==
    LET all == Append(shots, image)
    IN  IF Len(all) > cap THEN SubSeq(all, 1, cap) ELSE all

\* add_screenshot with max_screenshots = cap: append, then, if the list is
\* longer than cap, keep screenshots[-cap:].
AddScreenshotCap(shots, cap, image) ==
    LET all == Append(shots, image)
    IN  IF Len(all) > cap THEN LastItems(all, cap) ELSE all

\* add_screenshot of the Agent's AgentMemory(), whose cap is the default.
AddScreenshot(shots, image) == AddScreenshotCap(shots, max_screenshots, image)

\* -------------------------------------------------------- action controller

\* ActionController._validate_coordinates
\* A faulty _validate_coordinates: the upper bounds are tested with <=.
OnScreenInclusive(x, y) == 0 <= x /\ x <= screen_width /\ 0 <= y /\ y <= screen_height

OnScreen(x, y) == 0 <= x /\ x < screen_width /\ 0 <= y /\ y < screen_height

ActionResult(success, text) == [raised |-> FALSE, success |-> success, text |-> text]

\* click, double_click and move: a failed result off screen or when the
\* backend raises (backend_ok = FALSE), a successful one otherwise. text is
\* result.message or result.error.
PointerAction(x, y, backend_ok, done_text) ==
    IF ~OnScreen(x, y) THEN ActionResult(FALSE, "Coordinates out of screen bounds")
    ELSE IF ~backend_ok THEN ActionResult(FALSE, "backend error")
    ELSE ActionResult(TRUE, done_text)

\* The pyautogui calls click, double_click and move make: none for a position
\* off screen, else the one call named fn, which returns or raises.
PointerInputs(fn, x, y) ==
    IF OnScreen(x, y) THEN <<[fn |-> fn, at |-> <<x, y>>]>> ELSE <<>>

\* The pyautogui function behind each pointer action.
PointerBackend(action) ==
    CASE action = "click" -> "click"
      [] action = "double_click" -> "doubleClick"
      [] action = "move" -> "moveTo"

\* ActionController.drag: both endpoints are tested before anything is done;
\* then moveTo and drag are called inside one try. returned is the number of
\* these calls that return instead of raising.
Drag(start_x, start_y, end_x, end_y, returned) ==
    LET moveTo == [fn |-> "moveTo", at |-> <<start_x, start_y>>]
        drag == [fn |-> "drag", at |-> <<end_x - start_x, end_y - start_y>>]
    IN  IF ~OnScreen(start_x, start_y)
        THEN [result |-> ActionResult(FALSE, "Start coordinates out of bounds"),
              inputs |-> <<>>]
        ELSE IF ~OnScreen(end_x, end_y)
        THEN [result |-> ActionResult(FALSE, "End coordinates out of bounds"),
              inputs |-> <<>>]
        ELSE IF returned = 0
        THEN [result |-> ActionResult(FALSE, "backend error"), inputs |-> <<moveTo>>]
        ELSE IF returned = 1
        THEN [result |-> ActionResult(FALSE, "backend error"), inputs |-> <<moveTo, drag>>]
        ELSE [result |-> ActionResult(TRUE, "Dragged"), inputs |-> <<moveTo, drag>>]

\* ActionController.wait: time.sleep(seconds) outside any try. It raises
\* TypeError for a value that is no number and ValueError for a negative one.
Wait(seconds) ==
    IF seconds.t \notin {"int", "bool"} \/ NumVal(seconds) < 0
    THEN [raised |-> TRUE, success |-> FALSE, text |-> "sleep error"]
    ELSE ActionResult(TRUE, "Waited")

\* Agent._execute_action: the dispatch to the action controller. backend_ok
\* says whether the pyautogui call made inside the controller's try returns.
ExecuteAction(action, params, backend_ok) ==
    CASE action = "click" ->
           PointerAction(NumVal(params["x"]), NumVal(params["y"]), backend_ok, "Clicked")
      [] action = "double_click" ->
           PointerAction(NumVal(params["x"]), NumVal(params["y"]), backend_ok, "Double-clicked")
      [] action = "move" ->
           PointerAction(NumVal(params["x"]), NumVal(params["y"]), backend_ok, "Moved cursor")
      [] action = "type" ->
           IF params["text"].t = "str" /\ backend_ok
           THEN ActionResult(TRUE, "Typed") ELSE ActionResult(FALSE, "backend error")
      [] action = "hotkey" ->
           IF backend_ok THEN ActionResult(TRUE, "Pressed")
           ELSE ActionResult(FALSE, "backend error")
      [] action = "scroll" ->
           IF IsInt(Get(params, "amount", JInt(3))) /\ backend_ok
           THEN ActionResult(TRUE, "Scrolled") ELSE ActionResult(FALSE, "backend error")
      [] action = "wait" -> Wait(params["seconds"])
      [] OTHER -> ActionResult(FALSE, "Unknown action")

\* ------------------------------------------------------------- the inputs

\* The oracle responses a run draws from.
RespNoJson == <<>>

RespClickNoY == <<Obj([action |-> JStr("click"), params |-> JDict([x |-> JInt(50)])])>>

RespScrollBadType ==
    <<Obj([action |-> JStr("scroll"), params |-> JDict([direction |-> JInt(5)])])>>

RespScroll ==
    <<BadJson, Obj([action |-> JStr("scroll"), params |-> JDict([direction |-> JStr("UP")])])>>

RespClick ==
    <<Obj([action |-> JStr("CLICK"), params |-> JDict([x |-> JInt(50), y |-> JInt(40)])])>>

RespClickOff ==
    <<Obj([action |-> JStr("click"), params |-> JDict([x |-> JInt(-5), y |-> JInt(40)])])>>

RespWait == <<Obj([action |-> JStr("wait"), params |-> JDict([seconds |-> JInt(1)])])>>

RespWaitNegative ==
    <<Obj([action |-> JStr("wait"), params |-> JDict([seconds |-> JInt(-1)])])>>

RespDone ==
    <<Obj([action |-> JStr("done"),
           params |-> JDict([result |-> JStr("Task complete"), success |-> JBool(TRUE)])])>>

RespDoneFailed ==
    <<Obj([action |-> JStr("Done"),
           params |-> JDict([result |-> JStr("Gave up"), success |-> JBool(FALSE)])])>>

RespDoneNoFlag ==
    <<Obj([action |-> JStr("done"), params |-> JDict([result |-> JStr("Task complete")])])>>

RespDoneBare == <<Obj([action |-> JStr("done")])>>

\* A hotkey that is_dangerous_action flags (command+q, in capitals).
RespHotkeyQuit ==
    <<Obj([action |-> JStr("hotkey"),
           params |-> JDict([keys |-> JList(<<JStr("Command"), JStr("Q")>>)])])>>

\* A hotkey it does not flag.
RespHotkeyCopy ==
    <<Obj([action |-> JStr("hotkey"),
           params |-> JDict([keys |-> JList(<<JStr("command"), JStr("c")>>)])])>>

HotkeyResponses == {RespHotkeyQuit, RespHotkeyCopy}

Responses ==
    { RespNoJson, RespClickNoY, RespScrollBadType, RespScroll, RespClick,
      RespClickOff, RespWait, RespWaitNegative, RespDone, RespDoneFailed,
      RespDoneNoFlag, RespDoneBare }

\* The seconds that pass while the oracle is asked.
OracleTimes == {0, Window}

\* SafetyConfig: a tight ceiling with the default margin, and a minimum
\* delay with a margin that reaches past the screen.
SafetyConfigs ==
    { [max_actions_per_minute |-> 1, min_action_delay |-> 0, bounds_margin |-> 10],
      [max_actions_per_minute |-> 60, min_action_delay |-> 1, bounds_margin |-> -10] }

\* AgentConfig with its SafetyConfig, and whether an on_step callback is given.
Configs ==
    { [max_steps |-> n, step_delay |-> d, on_step |-> cb, safety |-> sc] :
        n \in 0..MaxStepsBound, d \in {0, 1}, cb \in BOOLEAN, sc \in SafetyConfigs }

\* ---------------------------------------------------------------- state

VARIABLES
    config,            \* Agent.config, read-only
    status,            \* Agent.status
    stop_requested,    \* Agent._stop_requested
    pc,                \* where run() is
    step,              \* run's local step
    final_screenshot,  \* run's local final_screenshot (0: None)
    response,          \* run's local response.content
    action,            \* run's local action (ParsedAction)
    exec_result,       \* run's local result (ActionResult)
    result,            \* the AgentResult run returned
    messages,          \* AgentMemory.messages
    actions,           \* AgentMemory.actions
    screenshots,       \* AgentMemory.screenshots
    action_times,      \* SafetyController._action_times
    last_action_time,  \* SafetyController._last_action_time
    now,               \* time.time()
    calls,             \* how often each collaborator was invoked in this run
    step_start,        \* what memory, safety and calls were when the step began
    outcome,           \* how the current step went so far
    stop_seen,         \* where run was when the pending stop request was made
    run_no,            \* how many times run() was called
    recorded,          \* the time of every record_action call so far
    caps,              \* AgentMemory.max_messages and max_screenshots
    added,             \* everything handed to the store's add_* methods
    conv,              \* the list get_conversation_for_llm gave its caller
    call,              \* the last call of on_step, or of a function made on its own
    history,           \* the conversation an overlapping run last handed the oracle
    other              \* the locals of a second call of run() on the same Agent

agent_vars == <<config, status, stop_requested>>

run_vars == <<pc, step, final_screenshot, response, action, exec_result, result>>

memory_vars == <<messages, actions, screenshots>>

safety_vars == <<action_times, last_action_time>>

\* The memory store seen on its own: its caps, its inputs, its copies.
store_vars == <<caps, added, conv>>

\* A second caller of run() on the same Agent.
overlap_vars == <<history, other>>

vars == <<agent_vars, run_vars, memory_vars, safety_vars, now, calls, step_start, outcome,
          stop_seen, run_no, recorded, store_vars, call, overlap_vars>>

NoResponse == <<>>

NoAction == [action |-> "none", params |-> EmptyDict]

NoExecResult == [raised |-> FALSE, success |-> FALSE, text |-> "none"]

NoResult == [success |-> JBool(FALSE), message |-> JStr("none"), total_steps |-> -1,
             actions_executed |-> -1, final_screenshot |-> 0]

NoCalls == [oracle |-> 0, executor |-> 0, safety |-> 0, callback |-> 0, sleep |-> 0]

Snapshot ==
    [messages |-> messages, actions |-> actions, action_times |-> action_times,
     last_action_time |-> last_action_time, calls |-> calls]

\* AgentMemory(): the default caps.
DefaultCaps == [max_messages |-> max_messages, max_screenshots |-> max_screenshots]

NoAdded == [messages |-> <<>>, actions |-> <<>>, screenshots |-> <<>>]

\* No function was called on its own yet.
NoCall == [fn |-> "none", args |-> <<>>, value |-> <<>>]

\* No conversation was handed out yet.
NoConv == [taken |-> FALSE, entries |-> <<>>]

\* The locals of a caller that has not called run() yet.
IdleFrame ==
    [pc |-> "idle", step |-> 0, final_screenshot |-> 0, response |-> NoResponse,
     action |-> NoAction, exec_result |-> NoExecResult, result |-> NoResult,
     calls |-> NoCalls,
     step_start |-> [messages |-> <<>>, actions |-> <<>>, action_times |-> <<>>,
                     last_action_time |-> 0, calls |-> NoCalls],
     outcome |-> "none", stop_seen |-> "no", history |-> <<>>]

\* What a newly constructed Agent holds, its configuration apart: status
\* IDLE, no stop request, an empty AgentMemory and SafetyController.
Constructed ==
    /\ status = "idle"
    /\ stop_requested = FALSE
    /\ step = 0
    /\ final_screenshot = 0
    /\ response = NoResponse
    /\ action = NoAction
    /\ exec_result = NoExecResult
    /\ result = NoResult
    /\ messages = <<>>
    /\ actions = <<>>
    /\ screenshots = <<>>
    /\ action_times = <<>>
    /\ last_action_time = 0
    /\ now = StartTime
    /\ calls = NoCalls
    /\ step_start = [messages |-> <<>>, actions |-> <<>>, action_times |-> <<>>,
                     last_action_time |-> 0, calls |-> NoCalls]
    /\ outcome = "none"
    /\ stop_seen = "no"
    /\ run_no = 0
    /\ recorded = <<>>
    /\ added = NoAdded
    /\ conv = NoConv
    /\ call = NoCall
    /\ history = <<>>
    /\ other = IdleFrame

\* Agent.__init__ with AgentMemory() and SafetyController(config.safety).
Init ==
    /\ config \in Configs
    /\ caps = DefaultCaps
    /\ pc = "idle"
    /\ Constructed

\* ------------------------------------------------------------ Agent.run

\* A faulty AgentResult: actions_executed counts the successful actions only.
AgentResultCountsSuccessful(success, message) ==
    [success |-> success, message |-> message, total_steps |-> step,
     actions_executed |-> Len(SelectSeq(actions, LAMBDA a : a.success)),
     final_screenshot |-> final_screenshot]

\* The AgentResult every return statement of run builds.
AgentResult(success, message) ==
    [success |-> success, message |-> message, total_steps |-> step,
     actions_executed |-> Len(actions), final_screenshot |-> final_screenshot]

\* A faulty handler: the result is built but the status is left as it was.
UnexpectedKeepsStatus ==
    /\ status' = status
    /\ result' = AgentResult(JBool(FALSE), JStr("Unexpected error"))
    /\ pc' = "returned"

\* run's "except Exception" handler: FAILED, "Unexpected error: ...".
Unexpected ==
    /\ status' = "failed"
    /\ result' = AgentResult(JBool(FALSE), JStr("Unexpected error"))
    /\ pc' = "returned"

\* run's first statement: status RUNNING. A stop request still pending from
\* before the call is one that arrived before run().
RunStart ==
    /\ pc = "idle"
    /\ status' = "running"
    /\ pc' = "start"
    /\ run_no' = run_no + 1
    /\ stop_seen' = IF stop_requested THEN "before" ELSE "no"
    /\ UNCHANGED <<config, stop_requested, step, final_screenshot, response, action,
                   exec_result, result, memory_vars, safety_vars, now, calls,
                   step_start, outcome>>
    /\ UNCHANGED <<recorded, store_vars, call, overlap_vars>>

\* run called again on the same Agent after it returned: a new frame, whose
\* locals are not yet bound, and the same first statement.
RunAgain ==
    /\ pc = "returned"
    /\ run_no < MaxRuns
    /\ status' = "running"
    /\ pc' = "start"
    /\ run_no' = run_no + 1
    /\ stop_seen' = IF stop_requested THEN "before" ELSE "no"
    /\ step' = 0
    /\ final_screenshot' = 0
    /\ response' = NoResponse
    /\ action' = NoAction
    /\ exec_result' = NoExecResult
    /\ result' = NoResult
    /\ UNCHANGED <<config, stop_requested, memory_vars, safety_vars, now, calls,
                   step_start, outcome>>
    /\ UNCHANGED <<recorded, store_vars, call, overlap_vars>>

\* A faulty RunReset: a stop request that is pending is kept.
RunResetKeepsStop ==
    /\ pc = "start"
    /\ messages' = <<>>
    /\ actions' = <<>>
    /\ screenshots' = <<>>
    /\ step' = 0
    /\ final_screenshot' = 0
    /\ calls' = NoCalls
    /\ outcome' = "none"
    /\ pc' = "loop"
    /\ UNCHANGED <<config, status, stop_requested, response, action, exec_result, result,
                   safety_vars, now, step_start>>
    /\ UNCHANGED <<stop_seen, run_no, recorded, store_vars, call, overlap_vars>>

\* A faulty RunReset: memory is left as the last run filled it.
RunResetKeepsMemory ==
    /\ pc = "start"
    /\ stop_requested' = FALSE
    /\ step' = 0
    /\ final_screenshot' = 0
    /\ calls' = NoCalls
    /\ outcome' = "none"
    /\ pc' = "loop"
    /\ UNCHANGED <<config, status, response, action, exec_result, result, memory_vars,
                   safety_vars, now, step_start>>
    /\ stop_seen' = "no"
    /\ UNCHANGED <<run_no, recorded, store_vars, call, overlap_vars>>

\* A faulty RunReset: the Safety Governor is reset with the memory.
RunResetClearsGovernor ==
    /\ pc = "start"
    /\ stop_requested' = FALSE
    /\ messages' = <<>>
    /\ actions' = <<>>
    /\ screenshots' = <<>>
    /\ action_times' = <<>>
    /\ last_action_time' = 0
    /\ step' = 0
    /\ final_screenshot' = 0
    /\ calls' = NoCalls
    /\ outcome' = "none"
    /\ pc' = "loop"
    /\ UNCHANGED <<config, status, response, action, exec_result, result,
                   now, step_start>>
    /\ stop_seen' = "no"
    /\ UNCHANGED <<run_no, recorded, store_vars, call, overlap_vars>>

\* A faulty RunReset: the memory is left alone while another call of run()
\* is under way, as if the two calls were kept apart.
RunResetSparesOther ==
    /\ pc = "start"
    /\ stop_requested' = FALSE
    /\ IF other.pc \in {"idle", "returned"}
       THEN /\ messages' = <<>>
            /\ actions' = <<>>
            /\ screenshots' = <<>>
       ELSE UNCHANGED <<messages, actions, screenshots>>
    /\ step' = 0
    /\ final_screenshot' = 0
    /\ calls' = NoCalls
    /\ outcome' = "none"
    /\ pc' = "loop"
    /\ UNCHANGED <<config, status, response, action, exec_result, result, safety_vars,
                   now, step_start>>
    /\ stop_seen' = "no"
    /\ UNCHANGED <<run_no, recorded, store_vars, call, overlap_vars>>

\* The rest of run's preamble: the stop flag reset, memory cleared, step 0.
RunReset ==
    /\ pc = "start"
    /\ stop_requested' = FALSE
    /\ messages' = <<>>
    /\ actions' = <<>>
    /\ screenshots' = <<>>
    /\ step' = 0
    /\ final_screenshot' = 0
    /\ calls' = NoCalls
    /\ outcome' = "none"
    /\ pc' = "loop"
    /\ UNCHANGED <<config, status, response, action, exec_result, result, safety_vars,
                   now, step_start>>
    /\ stop_seen' = "no"
    /\ UNCHANGED <<run_no, recorded, store_vars, call, overlap_vars>>

\* A faulty LoopTest: the bound is tested with <= and lets one more step run.
LoopTestOffByOne ==
    /\ pc = "loop"
    /\ IF step <= config.max_steps /\ ~stop_requested
       THEN /\ step' = step + 1
            /\ step_start' = Snapshot
            /\ outcome' = "none"
            /\ pc' = "capture"
       ELSE /\ pc' = "exit_status"
            /\ UNCHANGED <<step, step_start, outcome>>
    /\ UNCHANGED <<agent_vars, final_screenshot, response, action, exec_result, result,
                   memory_vars, safety_vars, now, calls>>
    /\ UNCHANGED <<stop_seen, run_no, recorded, store_vars, call, overlap_vars>>

\* A faulty LoopTest: the stop flag is not looked at.
LoopTestIgnoresStop ==
    /\ pc = "loop"
    /\ IF step < config.max_steps
       THEN /\ step' = step + 1
            /\ step_start' = Snapshot
            /\ outcome' = "none"
            /\ pc' = "capture"
       ELSE /\ pc' = "exit_status"
            /\ UNCHANGED <<step, step_start, outcome>>
    /\ UNCHANGED <<agent_vars, final_screenshot, response, action, exec_result, result,
                   memory_vars, safety_vars, now, calls>>
    /\ UNCHANGED <<stop_seen, run_no, recorded, store_vars, call, overlap_vars>>

\* The while test: step < max_steps and not _stop_requested, then step += 1.
LoopTest ==
    /\ pc = "loop"
    /\ IF step < config.max_steps /\ ~stop_requested
       THEN /\ step' = step + 1
            /\ step_start' = Snapshot
            /\ outcome' = "none"
            /\ pc' = "capture"
       ELSE /\ pc' = "exit_status"
            /\ UNCHANGED <<step, step_start, outcome>>
    /\ UNCHANGED <<agent_vars, final_screenshot, response, action, exec_result, result,
                   memory_vars, safety_vars, now, calls>>
    /\ UNCHANGED <<stop_seen, run_no, recorded, store_vars, call, overlap_vars>>

\* A faulty ExitStatus: an exhausted step limit goes before a stop request.
ExitStatusLimitFirst ==
    /\ pc = "exit_status"
    /\ status' = IF stop_requested /\ step < config.max_steps THEN "stopped" ELSE "failed"
    /\ pc' = "exit_result"
    /\ UNCHANGED <<config, stop_requested, step, final_screenshot, response, action,
                   exec_result, result, memory_vars, safety_vars, now, calls, step_start,
                   outcome>>
    /\ UNCHANGED <<stop_seen, run_no, recorded, store_vars, call, overlap_vars>>

\* After the loop: STOPPED if _stop_requested else FAILED.
ExitStatus ==
    /\ pc = "exit_status"
    /\ status' = IF stop_requested THEN "stopped" ELSE "failed"
    /\ pc' = "exit_result"
    /\ UNCHANGED <<config, stop_requested, step, final_screenshot, response, action,
                   exec_result, result, memory_vars, safety_vars, now, calls, step_start,
                   outcome>>
    /\ UNCHANGED <<stop_seen, run_no, recorded, store_vars, call, overlap_vars>>

\* A faulty ExitResult: the two messages are swapped.
ExitResultSwapped ==
    /\ pc = "exit_result"
    /\ result' = AgentResult(JBool(FALSE),
                             IF stop_requested THEN JStr("Max steps reached")
                             ELSE JStr("Stopped by user"))
    /\ pc' = "returned"
    /\ UNCHANGED <<agent_vars, step, final_screenshot, response, action, exec_result,
                   memory_vars, safety_vars, now, calls, step_start,
                   outcome>>
    /\ UNCHANGED <<stop_seen, run_no, recorded, store_vars, call, overlap_vars>>

\* After the loop: the result, its message read from _stop_requested again.
ExitResult ==
    /\ pc = "exit_result"
    /\ result' = AgentResult(JBool(FALSE),
                             IF ~stop_requested THEN JStr("Max steps reached")
                             ELSE JStr("Stopped by user"))
    /\ pc' = "returned"
    /\ UNCHANGED <<agent_vars, step, final_screenshot, response, action, exec_result,
                   memory_vars, safety_vars, now, calls, step_start,
                   outcome>>
    /\ UNCHANGED <<stop_seen, run_no, recorded, store_vars, call, overlap_vars>>

\* A faulty Capture: the screenshot is stored but final_screenshot is not set.
CaptureForgetsScreenshot ==
    /\ pc = "capture"
    /\ screenshots' = AddScreenshot(screenshots, step)
    /\ pc' = "llm"
    /\ UNCHANGED <<agent_vars, step, final_screenshot, response, action, exec_result,
                   result, messages, actions, safety_vars, now, calls, step_start,
                   outcome>>
    /\ UNCHANGED <<stop_seen, run_no, recorded, store_vars, call, overlap_vars>>

\* Step 1, _capture_screen: the screenshot (named by its step) is stored in
\* memory and becomes final_screenshot.
Capture ==
    /\ pc = "capture"
    /\ screenshots' = AddScreenshot(screenshots, step)
    /\ final_screenshot' = step
    /\ pc' = "llm"
    /\ UNCHANGED <<agent_vars, step, response, action, exec_result, result, messages,
                   actions, safety_vars, now, calls, step_start,
                   outcome>>
    /\ UNCHANGED <<stop_seen, run_no, recorded, store_vars, call, overlap_vars>>

\* Step 1 when the capture (or its compression or grid overlay) raises.
CaptureRaises ==
    /\ pc = "capture"
    /\ Unexpected
    /\ outcome' = "capture_raised"
    /\ UNCHANGED <<config, stop_requested, step, final_screenshot, response, action,
                   exec_result, memory_vars, safety_vars, now, calls, step_start>>
    /\ UNCHANGED <<stop_seen, run_no, recorded, store_vars, call, overlap_vars>>

\* Step 2, llm.analyze_screen returns a response after some seconds.
LLMCall ==
    /\ pc = "llm"
    /\ \E d \in OracleTimes : now' = now + d
    /\ \E r \in Responses : response' = r
    /\ calls' = [calls EXCEPT !.oracle = @ + 1]
    /\ pc' = "parse"
    /\ UNCHANGED <<agent_vars, step, final_screenshot, action, exec_result, result,
                   memory_vars, safety_vars, step_start,
                   outcome>>
    /\ UNCHANGED <<stop_seen, run_no, recorded, store_vars, call, overlap_vars>>

\* A faulty LLMCallRaises: the failure is fed back and the loop goes on.
LLMCallRaisesContinues ==
    /\ pc = "llm"
    /\ calls' = [calls EXCEPT !.oracle = @ + 1]
    /\ messages' = AddMessage(messages, "assistant",
                              [kind |-> "LLM error", text |-> "LLM error"])
    /\ outcome' = "llm_error"
    /\ pc' = "delay"
    /\ UNCHANGED <<agent_vars, step, final_screenshot, response, action, exec_result,
                   result, actions, screenshots, safety_vars, now, step_start>>
    /\ UNCHANGED <<stop_seen, run_no, recorded, store_vars, call, overlap_vars>>

\* Step 2 when the oracle call raises: FAILED, "LLM error: ...".
LLMCallRaises ==
    /\ pc = "llm"
    /\ calls' = [calls EXCEPT !.oracle = @ + 1]
    /\ status' = "failed"
    /\ result' = AgentResult(JBool(FALSE), JStr("LLM error"))
    /\ outcome' = "llm_error"
    /\ pc' = "returned"
    /\ UNCHANGED <<config, stop_requested, step, final_screenshot, response, action,
                   exec_result, memory_vars, safety_vars, now, step_start>>
    /\ UNCHANGED <<stop_seen, run_no, recorded, store_vars, call, overlap_vars>>

\* A faulty Parse: a ParseError is not caught and ends the run.
ParseErrorFatal ==
    /\ pc = "parse"
    /\ LET p == ParseLLMResponse(response)
       IN  IF p.ok
           THEN /\ action' = [action |-> p.action, params |-> p.params]
                /\ pc' = "validate"
                /\ UNCHANGED <<status, result, outcome>>
           ELSE /\ Unexpected
                /\ outcome' = "parse_error"
                /\ UNCHANGED action
    /\ UNCHANGED <<config, stop_requested, step, final_screenshot, response,
                   exec_result, memory_vars, safety_vars, now, calls, step_start>>
    /\ UNCHANGED <<stop_seen, run_no, recorded, store_vars, call, overlap_vars>>

\* Step 3, parse_llm_response: on ParseError a corrective message, then the
\* delay and the next step.
Parse ==
    /\ pc = "parse"
    /\ LET p == ParseLLMResponse(response)
       IN  IF p.ok
           THEN /\ action' = [action |-> p.action, params |-> p.params]
                /\ pc' = "validate"
                /\ UNCHANGED <<messages, outcome>>
           ELSE /\ messages' = AddMessage(messages, "assistant",
                                          [kind |-> "Parse error", text |-> p.error])
                /\ outcome' = "parse_error"
                /\ pc' = "delay"
                /\ UNCHANGED action
    /\ UNCHANGED <<agent_vars, step, final_screenshot, response, exec_result, result,
                   actions, screenshots, safety_vars, now, calls, step_start>>
    /\ UNCHANGED <<stop_seen, run_no, recorded, store_vars, call, overlap_vars>>

\* validate_action_params: on an invalid action a corrective message, then
\* the delay and the next step; an exception it raises ends the run.
Validate ==
    /\ pc = "validate"
    /\ LET v == ValidateActionParams(action.action, action.params)
       IN  IF v.raised
           THEN /\ Unexpected
                /\ outcome' = "validate_raised"
                /\ UNCHANGED messages
           ELSE IF v.valid
           THEN /\ pc' = "done_check"
                /\ UNCHANGED <<status, result, messages, outcome>>
           ELSE /\ messages' = AddMessage(messages, "assistant",
                                          [kind |-> "Invalid action", text |-> v.error])
                /\ outcome' = "invalid"
                /\ pc' = "delay"
                /\ UNCHANGED <<status, result>>
    /\ UNCHANGED <<config, stop_requested, step, final_screenshot, response, action,
                   exec_result, actions, screenshots, safety_vars, now, calls,
                   step_start>>
    /\ UNCHANGED <<stop_seen, run_no, recorded, store_vars, call, overlap_vars>>

\* A faulty DoneCheck: done is not singled out and goes on to the safety check.
DoneCheckMissing ==
    /\ pc = "done_check"
    /\ pc' = "safety"
    /\ UNCHANGED <<agent_vars, step, final_screenshot, response, action, exec_result,
                   result, memory_vars, safety_vars, now, calls, step_start, outcome>>
    /\ UNCHANGED <<stop_seen, run_no, recorded, store_vars, call, overlap_vars>>

\* A faulty DoneCheck: the status follows the success flag the model declared.
DoneCheckStatusFromFlag ==
    /\ pc = "done_check"
    /\ IF action.action = "done"
       THEN /\ status' = IF Get(action.params, "success", JBool(TRUE)) = JBool(TRUE)
                         THEN "completed" ELSE "failed"
            /\ result' = AgentResult(Get(action.params, "success", JBool(TRUE)),
                                     Get(action.params, "result", JStr("Task completed")))
            /\ outcome' = "done"
            /\ pc' = "returned"
       ELSE /\ pc' = "safety"
            /\ UNCHANGED <<status, result, outcome>>
    /\ UNCHANGED <<config, stop_requested, step, final_screenshot, response, action,
                   exec_result, memory_vars, safety_vars, now, calls, step_start>>
    /\ UNCHANGED <<stop_seen, run_no, recorded, store_vars, call, overlap_vars>>

\* A faulty DoneCheck: a done that the rate limit would deny is sent to the
\* safety check like any other action.
DoneCheckRateLimited ==
    /\ pc = "done_check"
    /\ IF /\ action.action = "done"
          /\ CheckRateLimit(config.safety, action_times, last_action_time, now).ok
       THEN /\ status' = "completed"
            /\ result' = AgentResult(Get(action.params, "success", JBool(TRUE)),
                                     Get(action.params, "result", JStr("Task completed")))
            /\ outcome' = "done"
            /\ pc' = "returned"
       ELSE /\ pc' = "safety"
            /\ UNCHANGED <<status, result, outcome>>
    /\ UNCHANGED <<config, stop_requested, step, final_screenshot, response, action,
                   exec_result, memory_vars, safety_vars, now, calls, step_start>>
    /\ UNCHANGED <<stop_seen, run_no, recorded, store_vars, call, overlap_vars>>

\* Step 4: a done action returns COMPLETED with params.get("success", True)
\* and params.get("result", "Task completed").
DoneCheck ==
    /\ pc = "done_check"
    /\ IF action.action = "done"
       THEN /\ status' = "completed"
            /\ result' = AgentResult(Get(action.params, "success", JBool(TRUE)),
                                     Get(action.params, "result", JStr("Task completed")))
            /\ outcome' = "done"
            /\ pc' = "returned"
       ELSE /\ pc' = "safety"
            /\ UNCHANGED <<status, result, outcome>>
    /\ UNCHANGED <<config, stop_requested, step, final_screenshot, response, action,
                   exec_result, memory_vars, safety_vars, now, calls, step_start>>
    /\ UNCHANGED <<stop_seen, run_no, recorded, store_vars, call, overlap_vars>>

\* A faulty SafetyCheck: a denied action is reported and executed all the same.
SafetyCheckExecutesDenied ==
    /\ pc = "safety"
    /\ LET v == ValidateAction(config.safety, action_times, last_action_time, now,
                               action.action, action.params)
       IN  IF v.ok
           THEN /\ pc' = "execute"
                /\ UNCHANGED <<messages, outcome>>
           ELSE /\ messages' = AddMessage(messages, "assistant",
                                          [kind |-> "Action blocked by safety",
                                           text |-> v.error])
                /\ outcome' = "denied"
                /\ pc' = "execute"
    /\ action_times' = PruneActionTimes(action_times, now)
    /\ calls' = [calls EXCEPT !.safety = @ + 1]
    /\ UNCHANGED <<agent_vars, step, final_screenshot, response, action, exec_result,
                   result, actions, screenshots, last_action_time, now, step_start>>
    /\ UNCHANGED <<stop_seen, run_no, recorded, store_vars, call, overlap_vars>>

\* A faulty SafetyCheck: a denied action is checked again until it is admitted.
SafetyCheckRetry ==
    /\ pc = "safety"
    /\ LET v == ValidateAction(config.safety, action_times, last_action_time, now,
                               action.action, action.params)
       IN  IF v.ok
           THEN /\ pc' = "execute"
                /\ UNCHANGED <<messages, outcome>>
           ELSE /\ messages' = AddMessage(messages, "assistant",
                                          [kind |-> "Action blocked by safety",
                                           text |-> v.error])
                /\ outcome' = "denied"
                /\ pc' = "safety"
    /\ action_times' = PruneActionTimes(action_times, now)
    /\ calls' = [calls EXCEPT !.safety = IF @ < max_messages THEN @ + 1 ELSE @]
    /\ UNCHANGED <<agent_vars, step, final_screenshot, response, action, exec_result,
                   result, actions, screenshots, last_action_time, now, step_start>>
    /\ UNCHANGED <<stop_seen, run_no, recorded, store_vars, call, overlap_vars>>

\* Step 5, safety.validate_action: the window is cleaned up; on a denial a
\* corrective message, then the delay and the next step.
SafetyCheck ==
    /\ pc = "safety"
    /\ LET v == ValidateAction(config.safety, action_times, last_action_time, now,
                               action.action, action.params)
       IN  IF v.ok
           THEN /\ pc' = "execute"
                /\ UNCHANGED <<messages, outcome>>
           ELSE /\ messages' = AddMessage(messages, "assistant",
                                          [kind |-> "Action blocked by safety",
                                           text |-> v.error])
                /\ outcome' = "denied"
                /\ pc' = "delay"
    /\ action_times' = PruneActionTimes(action_times, now)
    /\ calls' = [calls EXCEPT !.safety = @ + 1]
    /\ UNCHANGED <<agent_vars, step, final_screenshot, response, action, exec_result,
                   result, actions, screenshots, last_action_time, now, step_start>>
    /\ UNCHANGED <<stop_seen, run_no, recorded, store_vars, call, overlap_vars>>

\* A faulty Execute: the action is handed to the executor twice.
ExecuteTwice ==
    /\ pc = "execute"
    /\ calls' = [calls EXCEPT !.executor = @ + 2]
    /\ \E backend_ok \in BOOLEAN :
         LET r == ExecuteAction(action.action, action.params, backend_ok)
         IN  IF r.raised
             THEN /\ Unexpected
                  /\ outcome' = "execute_raised"
                  /\ UNCHANGED exec_result
             ELSE /\ exec_result' = r
                  /\ pc' = "record"
                  /\ UNCHANGED <<status, result, outcome>>
    /\ UNCHANGED <<config, stop_requested, step, final_screenshot, response, action,
                   memory_vars, safety_vars, now, step_start>>
    /\ UNCHANGED <<stop_seen, run_no, recorded, store_vars, call, overlap_vars>>

\* Step 6, _execute_action: the ActionResult, or the exception it lets out.
Execute ==
    /\ pc = "execute"
    /\ calls' = [calls EXCEPT !.executor = @ + 1]
    /\ \E backend_ok \in BOOLEAN :
         LET r == ExecuteAction(action.action, action.params, backend_ok)
         IN  IF r.raised
             THEN /\ Unexpected
                  /\ outcome' = "execute_raised"
                  /\ UNCHANGED exec_result
             ELSE /\ exec_result' = r
                  /\ pc' = "record"
                  /\ UNCHANGED <<status, result, outcome>>
    /\ UNCHANGED <<config, stop_requested, step, final_screenshot, response, action,
                   memory_vars, safety_vars, now, step_start>>
    /\ UNCHANGED <<stop_seen, run_no, recorded, store_vars, call, overlap_vars>>

\* A faulty Record: only a successful action is recorded with the governor.
RecordOnlySuccessful ==
    /\ pc = "record"
    /\ IF exec_result.success
       THEN /\ action_times' = Append(action_times, now)
            /\ last_action_time' = now
            /\ recorded' = Append(recorded, now)
       ELSE UNCHANGED <<action_times, last_action_time, recorded>>
    /\ actions' = AddAction(actions, action, exec_result.success, exec_result.text)
    /\ messages' = AddMessage(messages, "assistant",
                              [kind |-> "Executed", action |-> action.action,
                               success |-> exec_result.success,
                               text |-> exec_result.text])
    /\ outcome' = "executed"
    /\ pc' = IF config.on_step THEN "callback" ELSE "delay"
    /\ UNCHANGED <<agent_vars, step, final_screenshot, response, action, exec_result,
                   result, screenshots, now, calls, step_start>>
    /\ UNCHANGED <<stop_seen, run_no, store_vars, call, overlap_vars>>

\* A faulty Record: the on_step callback is passed over.
RecordWithoutCallback ==
    /\ pc = "record"
    /\ action_times' = Append(action_times, now)
    /\ last_action_time' = now
    /\ actions' = AddAction(actions, action, exec_result.success, exec_result.text)
    /\ messages' = AddMessage(messages, "assistant",
                              [kind |-> "Executed", action |-> action.action,
                               success |-> exec_result.success,
                               text |-> exec_result.text])
    /\ outcome' = "executed"
    /\ pc' = "delay"
    /\ UNCHANGED <<agent_vars, step, final_screenshot, response, action, exec_result,
                   result, screenshots, now, calls, step_start>>
    /\ recorded' = Append(recorded, now)
    /\ UNCHANGED <<stop_seen, run_no, store_vars, call, overlap_vars>>

\* safety.record_action, memory.add_action and the "Executed: ..." message.
Record ==
    /\ pc = "record"
    /\ action_times' = Append(action_times, now)
    /\ last_action_time' = now
    /\ actions' = AddAction(actions, action, exec_result.success, exec_result.text)
    /\ messages' = AddMessage(messages, "assistant",
                              [kind |-> "Executed", action |-> action.action,
                               success |-> exec_result.success,
                               text |-> exec_result.text])
    /\ outcome' = "executed"
    /\ pc' = IF config.on_step THEN "callback" ELSE "delay"
    /\ UNCHANGED <<agent_vars, step, final_screenshot, response, action, exec_result,
                   result, screenshots, now, calls, step_start>>
    /\ recorded' = Append(recorded, now)
    /\ UNCHANGED <<stop_seen, run_no, store_vars, call, overlap_vars>>

\* The on_step callback, called with (step, action), returns.
Callback ==
    /\ pc = "callback"
    /\ calls' = [calls EXCEPT !.callback = @ + 1]
    /\ call' = [fn |-> "on_step", args |-> <<step, action>>, value |-> <<>>]
    /\ pc' = "delay"
    /\ UNCHANGED <<agent_vars, step, final_screenshot, response, action, exec_result,
                   result, memory_vars, safety_vars, now, step_start,
                   outcome>>
    /\ UNCHANGED <<stop_seen, run_no, recorded, store_vars, overlap_vars>>

\* The on_step callback, called with (step, action), raises.
CallbackRaises ==
    /\ pc = "callback"
    /\ calls' = [calls EXCEPT !.callback = @ + 1]
    /\ call' = [fn |-> "on_step", args |-> <<step, action>>, value |-> <<>>]
    /\ Unexpected
    /\ outcome' = "callback_raised"
    /\ UNCHANGED <<config, stop_requested, step, final_screenshot, response, action,
                   exec_result, memory_vars, safety_vars, now, step_start>>
    /\ UNCHANGED <<stop_seen, run_no, recorded, store_vars, overlap_vars>>

\* A faulty _delay_between_steps: it sleeps after the last step and after a
\* stop request too.
DelayAlways ==
    /\ pc = "delay"
    /\ IF config.step_delay > 0
       THEN /\ calls' = [calls EXCEPT !.sleep = @ + 1]
            /\ now' = now + config.step_delay
       ELSE UNCHANGED <<calls, now>>
    /\ pc' = "loop"
    /\ UNCHANGED <<agent_vars, step, final_screenshot, response, action, exec_result,
                   result, memory_vars, safety_vars, step_start,
                   outcome>>
    /\ UNCHANGED <<stop_seen, run_no, recorded, store_vars, call, overlap_vars>>

\* _delay_between_steps: time.sleep(step_delay) unless the delay is not
\* positive, a stop is requested or this was the last step.
Delay ==
    /\ pc = "delay"
    /\ IF config.step_delay > 0 /\ ~(stop_requested \/ step >= config.max_steps)
       THEN /\ calls' = [calls EXCEPT !.sleep = @ + 1]
            /\ now' = now + config.step_delay
       ELSE UNCHANGED <<calls, now>>
    /\ pc' = "loop"
    /\ UNCHANGED <<agent_vars, step, final_screenshot, response, action, exec_result,
                   result, memory_vars, safety_vars, step_start,
                   outcome>>
    /\ UNCHANGED <<stop_seen, run_no, recorded, store_vars, call, overlap_vars>>

\* The steps of one iteration, from the capture to the delay.
StepPcs ==
    {"capture", "llm", "parse", "validate", "done_check", "safety", "execute", "record",
     "callback", "delay"}

\* Where run is, as the caller of stop() finds it.
StopSeen ==
    CASE pc = "start" -> "start"
      [] pc = "loop" -> "boundary"
      [] pc \in StepPcs -> "step"
      [] pc \in {"exit_status", "exit_result"} -> "exit"
      [] OTHER -> "before"

\* Agent.stop, called from outside the loop at any time.
Stop ==
    /\ ~stop_requested
    /\ stop_requested' = TRUE
    /\ stop_seen' = StopSeen
    /\ UNCHANGED <<config, status, run_vars, memory_vars, safety_vars, now, calls,
                   step_start,
                   outcome>>
    /\ UNCHANGED <<run_no, recorded, store_vars, call, overlap_vars>>

\* The positions of run between its first statement and its return.
InFlight ==
    {"start", "loop", "exit_status", "exit_result", "capture", "llm", "parse", "validate",
     "done_check", "safety", "execute", "record", "callback", "delay"}

\* A KeyboardInterrupt raised in run: "except Exception" does not catch it,
\* it reaches the caller (main catches it) and no result is returned.
Interrupt ==
    /\ pc \in InFlight
    /\ pc' = "propagated"
    /\ UNCHANGED <<agent_vars, step, final_screenshot, response, action, exec_result,
                   result, memory_vars, safety_vars, now, calls, step_start,
                   outcome>>
    /\ UNCHANGED <<stop_seen, run_no, recorded, store_vars, call, overlap_vars>>

\* One statement of run.
RunStep ==
    \/ RunReset
    \/ LoopTest
    \/ ExitStatus
    \/ ExitResult
    \/ Capture
    \/ CaptureRaises
    \/ LLMCall
    \/ LLMCallRaises
    \/ Parse
    \/ Validate
    \/ DoneCheck
    \/ SafetyCheck
    \/ Execute
    \/ Record
    \/ Callback
    \/ CallbackRaises
    \/ Delay

Next == RunStart \/ RunStep \/ Stop

Spec == Init /\ [][Next]_vars

\* The loop is single-threaded and every call it makes returns or raises:
\* a run that can take a step takes one.
FairSpec == Spec /\ WF_vars(RunStep)

NextInterrupt == Next \/ Interrupt

\* Spec with interrupts delivered to run.
SpecInterrupt == Init /\ [][NextInterrupt]_vars

\* The Agent that is given several tasks: one of few steps and no delay.
InitRerun ==
    /\ Init
    /\ config.max_steps <= RerunSteps
    /\ config.step_delay = 0

NextRerun == Next \/ RunAgain

\* Spec with tasks run one after another on the same Agent.
SpecRerun == InitRerun /\ [][NextRerun]_vars

\* Step 2 when the oracle asks for a hotkey.
LLMCallHotkey ==
    /\ pc = "llm"
    /\ \E d \in OracleTimes : now' = now + d
    /\ \E r \in HotkeyResponses : response' = r
    /\ calls' = [calls EXCEPT !.oracle = @ + 1]
    /\ pc' = "parse"
    /\ UNCHANGED <<agent_vars, step, final_screenshot, action, exec_result, result,
                   memory_vars, safety_vars, step_start,
                   outcome>>
    /\ UNCHANGED <<stop_seen, run_no, recorded, store_vars, call, overlap_vars>>

\* A run of few steps and no delay.
InitHotkey ==
    /\ Init
    /\ config.max_steps <= HotkeySteps
    /\ config.step_delay = 0

NextHotkey == Next \/ LLMCallHotkey

\* Spec with an oracle that may also ask for hotkeys.
SpecHotkey == InitHotkey /\ [][NextHotkey]_vars

\* The answers of an oracle that first talks prose, then asks for a click
\* without y, then asks to wait, and may say done at any step.
LongResponses == {RespNoJson, RespClickNoY, RespWait, RespDone}

\* How far the oracle is in that sequence of answers.
LongRank(r) ==
    CASE r = RespClickNoY -> 1
      [] r = RespWait -> 2
      [] r = RespDone -> 3
      [] OTHER -> 0

\* Step 2 of a long run: the oracle goes on as before or moves on, at once.
LLMCallLong ==
    /\ pc = "llm"
    /\ \E r \in LongResponses :
         /\ LongRank(r) >= LongRank(response)
         /\ response' = r
    /\ calls' = [calls EXCEPT !.oracle = @ + 1]
    /\ pc' = "parse"
    /\ UNCHANGED <<agent_vars, step, final_screenshot, action, exec_result, result,
                   memory_vars, safety_vars, now, step_start,
                   outcome>>
    /\ UNCHANGED <<stop_seen, run_no, recorded, store_vars, call, overlap_vars>>

\* An Agent allowed more steps than its memory keeps messages, with no delay,
\* no observer and a ceiling of one action per minute.
InitLong ==
    /\ config = [max_steps |-> LongSteps, step_delay |-> 0, on_step |-> FALSE,
                 safety |-> [max_actions_per_minute |-> 1, min_action_delay |-> 0,
                             bounds_margin |-> 10]]
    /\ caps = DefaultCaps
    /\ pc = "idle"
    /\ Constructed

NextLong ==
    \/ RunStart
    \/ RunReset
    \/ LoopTest
    \/ ExitStatus
    \/ ExitResult
    \/ Capture
    \/ LLMCallLong
    \/ Parse
    \/ Validate
    \/ DoneCheck
    \/ SafetyCheck
    \/ Execute
    \/ Record
    \/ Delay

\* One long run, left alone, whose every call returns.
SpecLong == InitLong /\ [][NextLong]_vars

\* ------------------------------------------- two overlapping calls of run

\* The most steps of a run that overlaps another.
OverlapSteps == 2

\* What the oracle answers to overlapping runs: a wait, or done.
OverlapResponses == {RespWait, RespDone}

\* Step 2 of a run that may overlap another: analyze_screen is handed a copy
\* of the conversation the shared memory holds at that moment.
LLMCallOverlap ==
    /\ pc = "llm"
    /\ history' = messages
    /\ \E r \in OverlapResponses : response' = r
    /\ calls' = [calls EXCEPT !.oracle = @ + 1]
    /\ pc' = "parse"
    /\ UNCHANGED <<agent_vars, step, final_screenshot, action, exec_result, result,
                   memory_vars, safety_vars, now, step_start,
                   outcome>>
    /\ UNCHANGED <<stop_seen, run_no, recorded, store_vars, call, other>>

\* The locals of the call of run() that is being followed.
Frame ==
    [pc |-> pc, step |-> step, final_screenshot |-> final_screenshot,
     response |-> response, action |-> action, exec_result |-> exec_result,
     result |-> result, calls |-> calls, step_start |-> step_start,
     outcome |-> outcome, stop_seen |-> stop_seen, history |-> history]

\* The thread of the other call of run() is scheduled: its locals are taken
\* up and those of the call followed so far are set aside; the Agent, its
\* memory and its governor are the same for both.
Switch ==
    /\ other' = Frame
    /\ pc' = other.pc
    /\ step' = other.step
    /\ final_screenshot' = other.final_screenshot
    /\ response' = other.response
    /\ action' = other.action
    /\ exec_result' = other.exec_result
    /\ result' = other.result
    /\ calls' = other.calls
    /\ step_start' = other.step_start
    /\ outcome' = other.outcome
    /\ stop_seen' = other.stop_seen
    /\ history' = other.history
    /\ UNCHANGED <<agent_vars, memory_vars, safety_vars, now, run_no, recorded,
                   store_vars, call>>

\* An Agent with no delay and no observer, of which two callers call run().
InitOverlap ==
    /\ Init
    /\ config.max_steps = OverlapSteps
    /\ config.step_delay = 0
    /\ ~config.on_step

NextOverlap ==
    \/ RunStart
    \/ RunReset
    \/ LoopTest
    \/ ExitStatus
    \/ ExitResult
    \/ Capture
    \/ LLMCallOverlap
    \/ Parse
    \/ Validate
    \/ DoneCheck
    \/ SafetyCheck
    \/ Execute
    \/ Record
    \/ Delay
    \/ Switch

\* Two calls of run() on one Agent, interleaved statement by statement.
SpecOverlap == InitOverlap /\ [][NextOverlap]_vars

\* ------------------------------------------ the memory store on its own

\* AgentMemory(max_messages = m, max_screenshots = s).
MemoryCaps ==
    { [max_messages |-> m, max_screenshots |-> s] : m \in 1..MaxCap, s \in 1..MaxCap }

\* An Agent that is left idle while its parts are exercised.
IdleConfigs == { c \in Configs : c.max_steps = 0 /\ c.step_delay = 0 /\ ~c.on_step }

\* What the store's methods leave alone.
agent_side ==
    <<agent_vars, run_vars, safety_vars, now, calls, step_start, outcome, stop_seen,
      run_no, recorded, call, overlap_vars>>

\* An empty AgentMemory with caps of its own.
InitStore ==
    /\ config = CHOOSE c \in IdleConfigs : c.safety.bounds_margin > 0
    /\ caps \in MemoryCaps
    /\ pc = "store"
    /\ Constructed

\* How many add_* calls the store received.
StoreCalls == Len(added.messages) + Len(added.actions) + Len(added.screenshots)

\* memory.add_message(role, content): each call builds a new dict; its
\* content numbers the call, and so names that dict.
StoreAddMessage ==
    /\ pc = "store"
    /\ StoreCalls < MaxAdds
    /\ \E role \in {"system", "user"} :
         LET n == Len(added.messages) + 1
         IN  /\ messages' = AddMessageCap(messages, caps.max_messages, role, n)
             /\ added' = [added EXCEPT
                            !.messages = Append(@, [role |-> role, content |-> n])]
    /\ UNCHANGED <<agent_side, actions, screenshots, caps, conv>>

\* memory.add_action(action, success, message).
StoreAddAction ==
    /\ pc = "store"
    /\ StoreCalls < MaxAdds
    /\ \E success \in BOOLEAN :
         LET n == Len(added.actions) + 1
             a == [action |-> "wait", params |-> EmptyDict]
         IN  /\ actions' = AddAction(actions, a, success, n)
             /\ added' = [added EXCEPT
                            !.actions = Append(@, [action |-> a, success |-> success,
                                                   result_message |-> n])]
    /\ UNCHANGED <<agent_side, messages, screenshots, caps, conv>>

\* memory.add_screenshot(image): the image is named by the number of the call.
StoreAddScreenshot ==
    /\ pc = "store"
    /\ StoreCalls < MaxAdds
    /\ LET n == Len(added.screenshots) + 1
       IN  /\ screenshots' = AddScreenshotCap(screenshots, caps.max_screenshots, n)
           /\ added' = [added EXCEPT !.screenshots = Append(@, n)]
    /\ UNCHANGED <<agent_side, messages, actions, caps, conv>>

NextStore == StoreAddMessage \/ StoreAddAction \/ StoreAddScreenshot

\* The memory store under any sequence of add_* calls.
SpecStore == InitStore /\ [][NextStore]_vars

\* memory.get_conversation_for_llm(): self.messages.copy(), a new list of
\* the same dicts. The caller's list holds each dict by its name (the
\* content number add_message gave it); 0 names a dict the caller made.
GetConversation ==
    /\ pc = "store"
    /\ ~conv.taken
    /\ conv' = [taken |-> TRUE,
                entries |-> [i \in 1..Len(messages) |-> messages[i].content]]
    /\ UNCHANGED <<agent_side, memory_vars, caps, added>>

\* The caller appends a dict of its own to the list it was given.
CallerAppend ==
    /\ conv.taken
    /\ Len(conv.entries) < MaxAdds
    /\ conv' = [conv EXCEPT !.entries = Append(@, 0)]
    /\ UNCHANGED <<agent_side, memory_vars, caps, added>>

\* The caller removes an entry of the list: del conversation[j].
CallerRemove ==
    /\ conv.taken
    /\ \E j \in 1..Len(conv.entries) :
         conv' = [conv EXCEPT !.entries = SubSeq(@, 1, j - 1) \o SubSeq(@, j + 1, Len(@))]
    /\ UNCHANGED <<agent_side, memory_vars, caps, added>>

\* The caller puts a dict of its own in place of an entry:
\* conversation[j] = {...}.
CallerReplace ==
    /\ conv.taken
    /\ \E j \in 1..Len(conv.entries) :
         conv' = [conv EXCEPT !.entries[j] = 0]
    /\ UNCHANGED <<agent_side, memory_vars, caps, added>>

\* The caller changes an entry in place: conversation[j]["role"] = ...
\* The dict changed is the one the list holds, wherever else it is held.
CallerEdit ==
    /\ conv.taken
    /\ \E j \in 1..Len(conv.entries) :
         messages' = [i \in 1..Len(messages) |->
                        IF conv.entries[j] # 0 /\ messages[i].content = conv.entries[j]
                        THEN [messages[i] EXCEPT !.role = "edited"]
                        ELSE messages[i]]
    /\ UNCHANGED <<agent_side, actions, screenshots, caps, added, conv>>

\* What a caller may do to the conversation it was given.
CallerStep == CallerAppend \/ CallerRemove \/ CallerReplace \/ CallerEdit

NextCopy == StoreAddMessage \/ GetConversation \/ CallerStep

\* A store whose message cap is at least 2 (and whose screenshot cap, which
\* plays no part, is the same).
InitCopy ==
    /\ InitStore
    /\ caps.max_messages >= 2
    /\ caps.max_screenshots = caps.max_messages

\* The memory store and a caller holding a conversation it returned.
SpecCopy == InitCopy /\ [][NextCopy]_vars

\* --------------------------------------- the Safety Governor on its own

\* SafetyConfig(max_actions_per_minute = m, min_action_delay = d).
GovernorConfigs ==
    { [max_actions_per_minute |-> m, min_action_delay |-> d, bounds_margin |-> 10] :
        m \in 1..MaxCeiling, d \in {0, 1} }

\* The actions the governor is asked about: one without coordinates, a click
\* inside the margins and one outside them.
GovernorActions ==
    { [action |-> "wait", params |-> EmptyDict],
      ParseLLMResponse(RespClick),
      ParseLLMResponse(RespClickOff) }

\* What the governor's methods leave alone.
governor_frame ==
    <<agent_vars, step, final_screenshot, response, action, exec_result, result,
      memory_vars, calls, step_start, stop_seen, run_no, store_vars, call, overlap_vars>>

\* A SafetyController of an Agent that is left idle.
InitGovernor ==
    /\ config \in { [c EXCEPT !.safety = sc] : c \in IdleConfigs, sc \in GovernorConfigs }
    /\ caps = DefaultCaps
    /\ pc = "governor"
    /\ Constructed

\* The instants at which the governor is looked at, counted from its
\* construction: those a second around each multiple of the window.
GovernorTimes == { t \in 0..MaxElapsed : t % Window \in {0, 1, Window - 1} }

\* Time passes, up to a later one of these instants.
Tick ==
    /\ pc \in {"governor", "admitted"}
    /\ \E t \in GovernorTimes :
         /\ now < StartTime + t
         /\ now' = StartTime + t
    /\ UNCHANGED <<governor_frame, pc, outcome, safety_vars, recorded>>

\* safety.validate_action, as the loop calls it before it executes.
GovernorCheck ==
    /\ pc = "governor"
    /\ \E a \in GovernorActions :
         LET v == ValidateAction(config.safety, action_times, last_action_time, now,
                                 a.action, a.params)
         IN  /\ pc' = IF v.ok THEN "admitted" ELSE "governor"
             /\ outcome' = IF v.ok THEN "admitted" ELSE "denied"
    /\ action_times' = PruneActionTimes(action_times, now)
    /\ UNCHANGED <<governor_frame, last_action_time, now, recorded>>

\* safety.record_action, as the loop calls it after the action was executed.
GovernorRecord ==
    /\ pc = "admitted"
    /\ action_times' = Append(action_times, now)
    /\ last_action_time' = now
    /\ recorded' = Append(recorded, now)
    /\ outcome' = "executed"
    /\ pc' = "governor"
    /\ UNCHANGED <<governor_frame, now>>

\* The admitted action raised when it was executed: the run ends and
\* nothing is recorded.
GovernorAbandon ==
    /\ pc = "admitted"
    /\ outcome' = "execute_raised"
    /\ pc' = "governor"
    /\ UNCHANGED <<governor_frame, safety_vars, now, recorded>>

NextGovernor == Tick \/ GovernorCheck \/ GovernorRecord \/ GovernorAbandon

\* The Safety Governor under any sequence of check, execute, record.
SpecGovernor == InitGovernor /\ [][NextGovernor]_vars

\* ------------------------------------------ functions called on their own

\* What a call of a function on its own leaves alone.
call_frame ==
    <<agent_vars, run_vars, memory_vars, safety_vars, now, calls, step_start, outcome,
      stop_seen, run_no, recorded, store_vars, overlap_vars>>

\* An Agent that is left idle while functions of its parts are called.
InitCalls ==
    /\ config = CHOOSE c \in IdleConfigs : c.safety.bounds_margin > 0
    /\ caps = DefaultCaps
    /\ pc = "calls"
    /\ Constructed

\* SafetyConfig.bounds_margin: none, and those of SafetyConfigs.
Margins == {0} \cup { sc.bounds_margin : sc \in SafetyConfigs }

\* The coordinates tried: the screen and Reach pixels around it.
Xs == (0 - Reach)..(screen_width + Reach)

Ys == (0 - Reach)..(screen_height + Reach)

\* safety.validate_coordinates(x, y) with bounds_margin = m.
CallValidateCoordinates ==
    /\ pc = "calls"
    /\ call = NoCall
    /\ \E m \in Margins, x \in Xs, y \in Ys :
         call' = [fn |-> "validate_coordinates",
                  args |-> [margin |-> m, x |-> x, y |-> y],
                  value |-> ValidateCoordinates(m, x, y)]
    /\ UNCHANGED call_frame

\* The coordinates a margin away from an edge of the screen, and next to them.
EdgeXs(m) == {m - 1, m, screen_width - m - 1, screen_width - m}

EdgeYs(m) == {m - 1, m, screen_height - m - 1, screen_height - m}

\* safety.validate_action(action, params) of a governor that recorded
\* nothing yet, or one action just now, for the actions that take x and y
\* and one that does not.
CallValidateAction ==
    /\ pc = "calls"
    /\ call = NoCall
    /\ \E sc \in GovernorConfigs, m \in Margins, times \in {<<>>, <<now>>},
          kind \in {"click", "double_click", "move", "type"} :
         \E x \in EdgeXs(m), y \in EdgeYs(m) :
            LET cfg == [sc EXCEPT !.bounds_margin = m]
                params == [k \in {"x", "y"} |-> IF k = "x" THEN JInt(x) ELSE JInt(y)]
                last == IF times = <<>> THEN 0 ELSE now
            IN  call' = [fn |-> "validate_action",
                         args |-> [config |-> cfg, action_times |-> times,
                                   action |-> kind, x |-> x, y |-> y],
                         value |-> ValidateAction(cfg, times, last, now, kind, params)]
    /\ UNCHANGED call_frame

\* The coordinates at an edge of the screen, and next to them.
ScreenEdgeXs == EdgeXs(0)

ScreenEdgeYs == EdgeYs(0)

\* controller.click, double_click and move at (x, y), reached through
\* _execute_action; the pyautogui call returns or raises.
CallPointer ==
    /\ pc = "calls"
    /\ call = NoCall
    /\ \E kind \in {"click", "double_click", "move"}, x \in Xs, y \in ScreenEdgeYs,
          backend_ok \in BOOLEAN :
         LET params == [k \in {"x", "y"} |-> IF k = "x" THEN JInt(x) ELSE JInt(y)]
         IN  call' = [fn |-> kind,
                      args |-> [x |-> x, y |-> y],
                      value |-> [result |-> ExecuteAction(kind, params, backend_ok),
                                 inputs |-> PointerInputs(PointerBackend(kind), x, y)]]
    /\ UNCHANGED call_frame

\* controller.drag between two positions.
CallDrag ==
    /\ pc = "calls"
    /\ call = NoCall
    /\ \E start_x \in ScreenEdgeXs, start_y \in ScreenEdgeYs,
          end_x \in ScreenEdgeXs, end_y \in ScreenEdgeYs, returned \in 0..2 :
         call' = [fn |-> "drag",
                  args |-> [start_x |-> start_x, start_y |-> start_y,
                            end_x |-> end_x, end_y |-> end_y],
                  value |-> Drag(start_x, start_y, end_x, end_y, returned)]
    /\ UNCHANGED call_frame

\* The keys tried: key names in either case, and a key that is a number.
KeyValues ==
    { JStr(k) : k \in {"command", "Command", "q", "Q", "delete", "DELETE", "shift",
                        "control", "alt", "c"} } \cup {JInt(1)}

\* Every list of at most n of the values in S.
ListsUpTo(S, n) == UNION { [1..k -> S] : k \in 0..n }

\* safety.is_dangerous_action(action, params), with and without keys.
CallIsDangerousAction ==
    /\ pc = "calls"
    /\ call = NoCall
    /\ \E kind \in {"hotkey", "type", "click"} :
         \E params \in {[k \in {"keys"} |-> JList(keys)] : keys \in ListsUpTo(KeyValues, MaxKeys)}
                        \cup {EmptyDict} :
            call' = [fn |-> "is_dangerous_action",
                     args |-> [action |-> kind, params |-> params],
                     value |-> IsDangerousAction(kind, params)]
    /\ UNCHANGED call_frame

\* The pieces the texts tried are made of: prose, a "{" that opens nothing,
\* the empty object, objects with and without an action, and objects whose
\* nested object has or lacks an action of its own.
Segments ==
    { [kind |-> "prose"], [kind |-> "junk"] } \cup
    { [kind |-> "object", value |-> f] :
        f \in { EmptyDict,
                [thought |-> JStr("Done"), action |-> JStr("done"),
                 params |-> JDict([result |-> JStr("ok")])],
                [action |-> JStr("click"),
                 params |-> JDict([x |-> JInt(50), y |-> JInt(40)])],
                [thought |-> JStr("thinking"), params |-> JDict(EmptyDict)],
                [thought |-> JStr("thinking"),
                 params |-> JDict([action |-> JStr("wait"),
                                   params |-> JDict([seconds |-> JInt(1)])])] } }

\* parse_llm_response(text) and the object _extract_json_object hands it.
CallParseLLMResponse ==
    /\ pc = "calls"
    /\ call = NoCall
    /\ \E text \in ListsUpTo(Segments, MaxSegments) :
         call' = [fn |-> "parse_llm_response",
                  args |-> [text |-> text],
                  value |-> [extracted |-> ExtractJsonObject(DecodeAttempts(text)),
                             parsed |-> ParseLLMResponse(DecodeAttempts(text))]]
    /\ UNCHANGED call_frame

\* The parameter values tried: a number, a JSON true, strings, a list, null.
ParamValues ==
    {JInt(50), JBool(TRUE), JStr("UP"), JStr("diagonal"), JList(<<JStr("command")>>), JNull}

\* Every parameter mapping that gives some of the names in S a value.
ParamsOver(S) == UNION { [K -> ParamValues] : K \in SUBSET S }

\* validate_action_params(action) for each action kind, with any of its
\* required parameters present or absent, rightly or wrongly typed.
CallValidateActionParams ==
    /\ pc = "calls"
    /\ call = NoCall
    /\ \E kind \in valid_actions :
         \E params \in ParamsOver({ required_params(kind)[i] :
                                     i \in 1..Len(required_params(kind)) }) :
            call' = [fn |-> "validate_action_params",
                     args |-> [action |-> kind, params |-> params],
                     value |-> ValidateActionParams(kind, params)]
    /\ UNCHANGED call_frame

NextCalls ==
    \/ CallParseLLMResponse
    \/ CallValidateActionParams
    \/ CallValidateCoordinates
    \/ CallValidateAction
    \/ CallPointer
    \/ CallDrag
    \/ CallIsDangerousAction

\* Each function of the parts, called once with any of the inputs tried.
SpecCalls == InitCalls /\ [][NextCalls]_vars

\* ------------------------------------------------------------- properties

Kinds(msgs) == [i \in 1..Len(msgs) |-> msgs[i].content.kind]

\* What this step did so far to memory, the safety controller and the
\* collaborators.
StepCalls(c) == calls[c] - step_start.calls[c]

MemoryUntouched == messages = step_start.messages /\ actions = step_start.actions

\* The one message a step appended, given its kind.
OneMessage(kind) ==
    /\ Len(messages) = Len(step_start.messages) + 1
    /\ SubSeq(messages, 1, Len(step_start.messages)) = step_start.messages
    /\ messages[Len(messages)].role = "assistant"
    /\ messages[Len(messages)].content.kind = kind

\* Whether a response parses and validates as a done action.
IsValidDone(r) ==
    LET p == ParseLLMResponse(r)
    IN  /\ p.ok
        /\ p.action = "done"
        /\ LET v == ValidateActionParams(p.action, p.params)
           IN  ~v.raised /\ v.valid

\* C1: every run terminates: once run is under way it eventually returns an
\* AgentResult, whatever the oracle answers and whichever call raises.
C1_RunTerminates == (pc \in InFlight) ~> (pc = "returned" /\ result # NoResult)

\* A run that went through a garbage response and a denied action and returned.
C1_Witness ==
    /\ pc = "returned"
    /\ Kinds(messages) = <<"Parse error", "Action blocked by safety">>
    /\ result.total_steps = 2

\* C2: the step counter never exceeds max_steps, the oracle is asked at most
\* once per step, and a returned result has
\* oracle invocations <= total_steps <= max_steps.
C2_OracleCallsBounded ==
    /\ step <= config.max_steps
    /\ calls.oracle <= step
    /\ StepCalls("oracle") <= 1
    /\ pc = "returned" =>
         /\ calls.oracle <= result.total_steps
         /\ result.total_steps <= config.max_steps

\* A run that used all its steps, with one oracle call in each.
C2_Witness ==
    /\ pc = "returned"
    /\ config.max_steps = 2
    /\ calls.oracle = 2
    /\ result.total_steps = 2

\* C3: a response that parses and validates as done ends the run in its own
\* step: neither the safety check nor the executor nor the delay is reached,
\* memory is not appended to, and the run returns COMPLETED with
\* total_steps = step, the declared success flag and the declared result.
C3_DoneReturnsAtOnce ==
    (StepCalls("oracle") = 1 /\ outcome # "llm_error" /\ IsValidDone(response)) =>
        /\ pc \in {"parse", "validate", "done_check", "returned"}
        /\ MemoryUntouched
        /\ StepCalls("executor") = 0
        /\ StepCalls("safety") = 0
        /\ StepCalls("sleep") = 0
        /\ safety_vars = <<step_start.action_times, step_start.last_action_time>>
        /\ pc = "returned" =>
             /\ status = "completed"
             /\ result.total_steps = step
             /\ result.success =
                  Get(ParseLLMResponse(response).params, "success", JBool(TRUE))
             /\ result.message = ParseLLMResponse(response).params["result"]
             /\ result.actions_executed = Len(actions)

\* The oracle answers done at once: COMPLETED, success, total_steps = 1.
C3_Witness ==
    /\ pc = "returned"
    /\ response = RespDone
    /\ status = "completed"
    /\ result.success = JBool(TRUE)
    /\ result.total_steps = 1

\* C4: a run in which no step ends it (no done, no oracle failure, no
\* exception) and no stop is requested runs exactly max_steps steps, each
\* leaving one message, and returns FAILED, success = false,
\* "Max steps reached", total_steps = max_steps.
C4_MaxStepsReached ==
    (pc = "returned" /\ ~stop_requested
     /\ outcome \in {"none", "parse_error", "invalid", "denied", "executed"}) =>
        /\ status = "failed"
        /\ result.success = JBool(FALSE)
        /\ result.message = JStr("Max steps reached")
        /\ result.total_steps = config.max_steps
        /\ step = config.max_steps
        /\ calls.oracle = config.max_steps
        /\ Len(messages) = config.max_steps

\* Two steps, none of them done, with max_steps = 2.
C4_Witness ==
    /\ pc = "returned"
    /\ ~stop_requested
    /\ config.max_steps = 2
    /\ Kinds(messages) = <<"Invalid action", "Executed">>
    /\ result.message = JStr("Max steps reached")

\* C5: a ParseError does not end the run: in its step the executor is not
\* invoked, one assistant "Parse error" message is appended, the status stays
\* RUNNING, the step counts, and the loop goes on to the next step when
\* step < max_steps and no stop is requested.
C5_ParseErrorState ==
    outcome = "parse_error" =>
        /\ pc \in {"delay", "loop", "exit_status", "exit_result", "returned"}
        /\ OneMessage("Parse error")
        /\ actions = step_start.actions
        /\ StepCalls("executor") = 0
        /\ StepCalls("safety") = 0
        /\ pc \in {"delay", "loop", "exit_status"} => status = "running"
        /\ pc = "returned" =>
             /\ result.total_steps = step
             /\ result.message \in {JStr("Max steps reached"), JStr("Stopped by user")}

C5_ParseErrorStep ==
    /\ (pc = "parse" /\ ~ParseLLMResponse(response).ok) =>
          (outcome' = "parse_error" /\ pc' = "delay" /\ step' = step)
    /\ (outcome = "parse_error" /\ pc = "delay") => pc' = "loop"
    /\ (outcome = "parse_error" /\ pc = "loop"
        /\ step < config.max_steps /\ ~stop_requested) =>
          (pc' = "capture" /\ step' = step + 1)

\* C5, as one formula: the state a ParseError leaves and the steps that follow.
C5_ParseErrorRecoverable == []C5_ParseErrorState /\ [][RunStep => C5_ParseErrorStep]_vars

\* An unparsable first response, then a valid done: total_steps = 2, success.
C5_Witness ==
    /\ pc = "returned"
    /\ Kinds(messages) = <<"Parse error">>
    /\ status = "completed"
    /\ result.total_steps = 2
    /\ result.success = JBool(TRUE)

\* Required parameters missing or of the wrong type: x and y integers, keys
\* a list, direction a string naming one of the four directions.
BadParams(a) ==
    \/ \E i \in 1..Len(required_params(a.action)) :
         required_params(a.action)[i] \notin DOMAIN a.params
    \/ /\ a.action \in {"click", "double_click", "move"}
       /\ (a.params["x"].t # "int" \/ a.params["y"].t # "int")
    \/ a.action = "hotkey" /\ a.params["keys"].t # "list"
    \/ /\ a.action = "scroll"
       /\ \/ a.params["direction"].t # "str"
          \/ Lower(a.params["direction"].s) \notin {"up", "down", "left", "right"}

\* C6: for an action whose required parameters are missing or mis-typed,
\* validate_action_params returns (false, reason) and does not raise, and the
\* loop recovers: one corrective message, no execution, no FAILED status.
C6_InvalidParamsRecoverable ==
    /\ (pc = "validate" /\ BadParams(action)) =>
          LET v == ValidateActionParams(action.action, action.params)
          IN  ~v.raised /\ ~v.valid
    /\ outcome \in {"invalid", "validate_raised"} =>
          /\ outcome = "invalid"
          /\ OneMessage("Invalid action")
          /\ StepCalls("executor") = 0
          /\ pc \in {"delay", "loop", "exit_status"} => status = "running"

\* Whether the times now recorded are a tail of those recorded before.
IsTailOf(times, before) ==
    /\ Len(times) <= Len(before)
    /\ times = SubSeq(before, Len(before) - Len(times) + 1, Len(before))

\* C7: an action the safety controller denies is skipped and not retried:
\* one safety check, no executor invocation, no ActionRecord, no new recorded
\* time and the last-action marker unchanged, one "Action blocked by safety"
\* assistant message, and the run goes on.
C7_DeniedState ==
    outcome = "denied" =>
        /\ pc \in {"delay", "loop", "exit_status", "exit_result", "returned"}
        /\ OneMessage("Action blocked by safety")
        /\ actions = step_start.actions
        /\ StepCalls("executor") = 0
        /\ StepCalls("safety") = 1
        /\ IsTailOf(action_times, step_start.action_times)
        /\ last_action_time = step_start.last_action_time
        /\ pc \in {"delay", "loop", "exit_status"} => status = "running"
        /\ pc = "returned" =>
             result.message \in {JStr("Max steps reached"), JStr("Stopped by user")}

C7_DeniedStep ==
    /\ (pc = "safety"
        /\ ~ValidateAction(config.safety, action_times, last_action_time, now,
                           action.action, action.params).ok) =>
          (outcome' = "denied" /\ pc' = "delay")
    /\ (outcome = "denied" /\ pc = "delay") => pc' = "loop"
    /\ (outcome = "denied" /\ pc = "loop"
        /\ step < config.max_steps /\ ~stop_requested) =>
          (pc' = "capture" /\ step' = step + 1)

\* C7, as one formula: the state a denial leaves and the steps that follow.
C7_DeniedActionSkipped == []C7_DeniedState /\ [][RunStep => C7_DeniedStep]_vars

\* A second action denied by the minimum delay, the first one still recorded.
C7_Witness ==
    /\ outcome = "denied"
    /\ pc = "loop"
    /\ messages[Len(messages)].content.text = "Minimum delay between actions not met"
    /\ Len(action_times) = 1

\* C8: a failed oracle call ends the run at once: FAILED, success = false,
\* "LLM error", total_steps = step, actions_executed = the actions recorded so
\* far, and nothing more is asked, executed or appended.
C8_OracleFailureState ==
    outcome = "llm_error" =>
        /\ pc = "returned"
        /\ status = "failed"
        /\ result = [success |-> JBool(FALSE), message |-> JStr("LLM error"),
                     total_steps |-> step, actions_executed |-> Len(actions),
                     final_screenshot |-> final_screenshot]
        /\ MemoryUntouched
        /\ StepCalls("oracle") = 1
        /\ StepCalls("executor") = 0

C8_OracleFailureFinal ==
    (outcome = "llm_error" /\ pc' = pc) =>
        UNCHANGED <<status, result, step, memory_vars, safety_vars, calls>>

\* C8, as one formula: the result of a failed oracle call, and nothing after it.
C8_OracleFailureTerminal == []C8_OracleFailureState /\ [][C8_OracleFailureFinal]_vars

\* The oracle fails in the second step, after one executed action.
C8_Witness ==
    /\ outcome = "llm_error"
    /\ step = 2
    /\ result.total_steps = 2
    /\ result.actions_executed = 1

\* The step outcomes in which something raised an Exception inside the loop.
Faults == {"capture_raised", "validate_raised", "execute_raised", "callback_raised"}

\* C9 as stated: run never lets a fault out: every call of run ends by
\* returning a result, with a status other than RUNNING, and every fault of
\* the loop body becomes a FAILED result with success = false.
C9_NeverPropagates ==
    /\ pc \notin InFlight \cup {"idle"} =>
          pc = "returned" /\ status # "running" /\ result # NoResult
    /\ outcome \in Faults =>
          pc = "returned" /\ status = "failed" /\ result.success = JBool(FALSE)

\* C9 as amended: every Exception raised in the loop body becomes a returned
\* FAILED result with success = false, and a run that returns leaves a status
\* other than RUNNING; a KeyboardInterrupt is not caught: it reaches the
\* caller, no result is returned and the status is left as run last set it
\* (RUNNING, or FAILED / STOPPED when the loop had already been left).
C9_ExceptionsConverted ==
    /\ outcome \in Faults =>
          /\ pc = "returned"
          /\ status = "failed"
          /\ result.success = JBool(FALSE)
          /\ result.message = JStr("Unexpected error")
          /\ result.total_steps = step
    /\ pc = "returned" =>
          status \in {"completed", "failed", "stopped"} /\ result # NoResult
    /\ pc = "propagated" =>
          status \in {"running", "failed", "stopped"} /\ result = NoResult

\* The observer callback raised after an executed action: a FAILED result.
C9_Witness ==
    /\ outcome = "callback_raised"
    /\ pc = "returned"
    /\ Len(actions) = 1

\* C10: a failed actuation does not end the run: it is recorded as an
\* ActionRecord with success = false and the error text, the status stays
\* RUNNING and the loop goes on.
C10_ActuationFailureRecorded ==
    /\ outcome # "execute_raised"
    /\ (outcome = "executed" /\ ~exec_result.success) =>
          /\ actions = Append(step_start.actions,
                              [action |-> action, success |-> FALSE,
                               result_message |-> exec_result.text])
          /\ pc \in {"callback", "delay", "loop", "exit_status"} => status = "running"

\* C11: the status follows the state machine: IDLE until the first run,
\* RUNNING while run is under way, one of COMPLETED, FAILED, STOPPED when run
\* has returned; COMPLETED exactly when the run ended on a validated done
\* action, whatever success flag the model declared; and the result's
\* success is true only when the status is COMPLETED.
C11_StatusStateMachine ==
    /\ pc = "idle" => status = "idle" /\ run_no = 0
    /\ pc \in InFlight \ {"exit_result"} => status = "running"
    /\ pc = "exit_result" => status \in {"failed", "stopped"}
    /\ pc = "returned" =>
          /\ status \in {"completed", "failed", "stopped"}
          /\ status = "completed" <=>
                /\ outcome = "done"
                /\ action.action = "done"
                /\ ValidateActionParams(action.action, action.params).valid
          /\ result.success # JBool(FALSE) => status = "completed"

\* A run that ended on a done action declaring success = false: COMPLETED.
C11_Witness ==
    /\ pc = "returned"
    /\ status = "completed"
    /\ response = RespDoneFailed
    /\ result.success = JBool(FALSE)

\* The outcomes of a step that end the run themselves.
EndsRun == {"done", "llm_error"} \cup Faults

\* A stop requested while a step is in flight: after the loop the status is
\* STOPPED, and unless the step ended the run the result says so.
C12_StopState ==
    stop_seen = "step" =>
       /\ stop_requested
       /\ pc \in StepPcs \cup {"loop", "exit_status", "exit_result", "returned"}
       /\ pc = "exit_result" => status = "stopped"
       /\ (pc = "returned" /\ outcome \notin EndsRun) =>
             /\ status = "stopped"
             /\ result.success = JBool(FALSE)
             /\ result.message = JStr("Stopped by user")
             /\ result.total_steps = step
             /\ result.actions_executed = Len(actions)

\* With that request pending the step in flight goes on as it would have:
\* the oracle is asked, an admitted action is executed and recorded, and
\* the next loop test leaves the loop without starting another step.
C12_StopStep ==
    (stop_seen = "step" /\ RunStep) =>
       /\ step' = step
       /\ pc = "llm" => calls'.oracle = calls.oracle + 1
       /\ pc = "safety" =>
             (ValidateAction(config.safety, action_times, last_action_time, now,
                             action.action, action.params).ok => pc' = "execute")
       /\ pc = "execute" => calls'.executor = calls.executor + 1
       /\ pc = "record" =>
             /\ Len(actions') = Len(actions) + 1
             /\ recorded' = Append(recorded, now)
             /\ Kinds(messages') = Append(Kinds(messages), "Executed")
       /\ pc = "loop" => pc' = "exit_status"

\* C12: a stop request is honoured only at a step boundary: the step in
\* flight when stop() is called runs to its end (an admitted action is
\* executed and recorded), no further step is started, and unless that step
\* ended the run itself, run returns STOPPED, success = false, "Stopped by
\* user", total_steps = the number of that step.
C12_StopAtStepBoundary == []C12_StopState /\ [][C12_StopStep]_vars

\* Stop arrived during step 1 of 2: its action was executed and recorded,
\* step 2 never started and the run returned STOPPED.
C12_Witness ==
    /\ stop_seen = "step"
    /\ pc = "returned"
    /\ config.max_steps = 2
    /\ step = 1
    /\ outcome = "executed"
    /\ Len(actions) = 1
    /\ status = "stopped"

\* C13 as stated: a stop request is never lost, whenever it arrives: once
\* set it stays set and no step is started while it is set.
C13_StopNeverLost ==
    [][stop_requested => (stop_requested' /\ step' = step)]_vars

\* A request made once the flag was reset is pending for good and ends the
\* run with "Stopped by user"; after the reset no earlier request is left.
C13_StopState ==
    /\ stop_seen = "before" => pc \in {"idle", "start", "returned"}
    /\ stop_seen = "start" => pc = "start"
    /\ (stop_seen = "no" /\ pc \notin {"idle", "start"}) => ~stop_requested
    /\ stop_seen \in {"boundary", "step", "exit"} =>
          /\ stop_requested
          /\ (pc = "returned" /\ outcome \notin EndsRun) =>
                /\ result.message = JStr("Stopped by user")
                /\ result.total_steps = step
                /\ stop_seen # "exit" => status = "stopped"

\* The reset discards whatever request is pending; a request made after it
\* stays, and no step is started from then on.
C13_StopStep ==
    /\ (pc = "start" /\ RunStep) => (~stop_requested' /\ stop_seen' = "no")
    /\ stop_seen \in {"boundary", "step", "exit"} =>
          (stop_requested' /\ stop_seen' = stop_seen /\ step' = step)

\* C13, amended: a stop request made after run has reset the flag is never
\* lost: no step is started after it and run returns "Stopped by user"
\* unless the step in flight ended the run; a request made before run(), or
\* after run set RUNNING and before it reset the flag, is discarded by the
\* reset.
C13_StopKeptAfterReset == []C13_StopState /\ [][C13_StopStep]_vars

\* Stop arrived between the reset and the first loop test: no step at all.
C13_Witness ==
    /\ stop_seen = "boundary"
    /\ pc = "returned"
    /\ config.max_steps = 2
    /\ step = 0
    /\ status = "stopped"

\* C14: memory is cleared at the start of every run: the history the first
\* oracle call of a run is given is empty, and the conversation, the action
\* history and actions_executed of a run hold only what that run produced.
C14_MemoryClearedEveryRun ==
    /\ (pc \in {"capture", "llm"} /\ step = 1) =>
          (messages = <<>> /\ actions = <<>>)
    /\ pc \in (InFlight \ {"start"}) \cup {"returned"} =>
          /\ Len(messages) <= step
          /\ Len(screenshots) <= step
          /\ Len(actions) <= calls.executor
          /\ \A i \in 1..Len(screenshots) : screenshots[i] <= step
    /\ pc = "returned" =>
          /\ result.actions_executed = Len(actions)
          /\ result.actions_executed <= calls.executor

\* The second run is about to ask the oracle for the first time, after a
\* first run that executed an action.
C14_Witness ==
    /\ run_no = 2
    /\ pc = "llm"
    /\ step = 1
    /\ Len(recorded) >= 1
    /\ messages = <<>>

\* The last k items of a sequence, all of it if it has fewer.
Newest(seq, k) ==
    IF k >= Len(seq) THEN seq
    ELSE [i \in 1..k |-> seq[Len(seq) - k + i]]

\* C15: conversation memory never grows without bound: whatever the cap
\* C >= 1 and whatever add_message calls were made, with or without a
\* leading system message, at most C messages are stored after each call.
C15_MessagesBounded == Len(messages) <= caps.max_messages

\* C16: trimming keeps the most recent messages in order: once more than C
\* messages were added, the store holds exactly the last C added when its
\* first message is not a system message, and that system message followed
\* by exactly the last C - 1 added when it is.
C16_TrimKeepsRecent ==
    Len(added.messages) > caps.max_messages =>
       IF messages[1].role = "system"
       THEN messages = <<messages[1]>> \o Newest(added.messages, caps.max_messages - 1)
       ELSE messages = Newest(added.messages, caps.max_messages)

C18_ActionsCapped ==
    \/ Len(actions) <= caps.max_messages
    \/ Len(actions) <= caps.max_screenshots

\* C18, amended: the action history has no cap and nothing is ever dropped
\* from it: after any add_action calls it holds every record, in the order
\* of the calls.
C18_ActionsNeverDropped == actions = added.actions

\* More records than any cap of the store, the first one still there.
C18_Witness ==
    /\ Len(actions) > caps.max_messages
    /\ Len(actions) > caps.max_screenshots
    /\ Len(actions) > MaxCap
    /\ actions[1].result_message = 1

\* C19: get_conversation_for_llm returns an independent copy: nothing the
\* caller does to the conversation it was given (appending or removing
\* entries, changing an entry) changes the messages the store holds.
C19_CopyIndependent == [][CallerStep => messages' = messages]_vars

\* How many actions were recorded in the 60 seconds that end at time t.
RecordedWithin(t) ==
    Cardinality({ j \in 1..Len(recorded) : recorded[j] <= t /\ t - recorded[j] < Window })

\* No 60 seconds hold more recorded actions than the ceiling, and neither
\* does the rolling window.
C20_CeilingState ==
    /\ Len(action_times) <= config.safety.max_actions_per_minute
    /\ \A i \in 1..Len(recorded) :
          RecordedWithin(recorded[i]) <= config.safety.max_actions_per_minute

\* A check made when the trailing 60 seconds hold as many recorded actions
\* as the ceiling, or more, denies the action.
C20_CeilingStep ==
    (pc = "governor" /\ now' = now
       /\ RecordedWithin(now) >= config.safety.max_actions_per_minute) =>
       (pc' = "governor" /\ recorded' = recorded /\ outcome' = "denied")

\* C20: the rate ceiling: an action is denied whenever the actions recorded
\* within the trailing 60 seconds number max_actions_per_minute or more, so
\* no 60-second window holds more than max_actions_per_minute recorded
\* actions and the rolling window never holds more entries than that.
C20_RateCeiling == []C20_CeilingState /\ [][C20_CeilingStep]_vars

\* Ceiling 2: a third action was recorded once the first had left the
\* window, and the next one is denied.
C20_Witness ==
    /\ config.safety.max_actions_per_minute = 2
    /\ Len(recorded) = 3
    /\ recorded[3] - recorded[1] >= Window
    /\ recorded[3] - recorded[2] < Window
    /\ pc = "governor"
    /\ outcome = "denied"
    /\ Len(action_times) = 2

\* Recorded actions are at least min_action_delay apart, and a governor
\* that recorded nothing yet passes the rate check.
C21_SpacingState ==
    /\ \A i \in 1..(Len(recorded) - 1) :
          recorded[i + 1] - recorded[i] >= config.safety.min_action_delay
    /\ recorded = <<>> =>
          CheckRateLimit(config.safety, action_times, last_action_time, now).ok
    /\ recorded # <<>> => last_action_time = recorded[Len(recorded)]

\* A check made less than min_action_delay after the last recorded action
\* denies; a check that admits is made at least that long after it.
C21_SpacingStep ==
    /\ (pc = "governor" /\ now' = now /\ recorded # <<>>
          /\ now - recorded[Len(recorded)] < config.safety.min_action_delay) =>
          (pc' = "governor" /\ recorded' = recorded /\ outcome' = "denied")
    /\ (pc = "governor" /\ pc' = "admitted" /\ recorded # <<>>) =>
          now - recorded[Len(recorded)] >= config.safety.min_action_delay

\* C21: minimum spacing: an action is denied whenever less than
\* min_action_delay elapsed since the last recorded action, so the check
\* admitting an action comes at least min_action_delay after the previous
\* one was recorded; the first action of a new governor is never denied
\* for spacing.
C21_MinimumSpacing == []C21_SpacingState /\ [][C21_SpacingStep]_vars

\* One action recorded, ceiling 2, and the next one asked for at the same
\* instant: denied for spacing.
C21_Witness ==
    /\ config.safety.max_actions_per_minute = 2
    /\ config.safety.min_action_delay = 1
    /\ Len(recorded) = 1
    /\ now = recorded[1]
    /\ pc = "governor"
    /\ outcome = "denied"
    /\ CheckRateLimit(config.safety, action_times, last_action_time, now).error
          = "Minimum delay between actions not met"

\* margin <= x < width - margin and margin <= y < height - margin.
WithinMargins(m, x, y) ==
    /\ m <= x /\ x <= screen_width - m - 1
    /\ m <= y /\ y <= screen_height - m - 1

\* C22: the safety bounds include the margin below and exclude it above:
\* validate_coordinates(x, y) admits exactly when m <= x < W - m and
\* m <= y < H - m, and for click, double_click and move validate_action
\* denies whenever that fails.
C22_SafetyBounds ==
    /\ call.fn = "validate_coordinates" =>
          (call.value.ok <=> WithinMargins(call.args.margin, call.args.x, call.args.y))
    /\ (call.fn = "validate_action"
          /\ call.args.action \in {"click", "double_click", "move"}
          /\ ~WithinMargins(call.args.config.bounds_margin, call.args.x, call.args.y)) =>
          ~call.value.ok

\* The last coordinates admitted with a margin of 10: W - 11 and H - 11.
C22_Witness ==
    /\ call.fn = "validate_coordinates"
    /\ call.args = [margin |-> 10, x |-> screen_width - 11, y |-> screen_height - 11]
    /\ call.value.ok

\* 0 <= x < width and 0 <= y < height.
WithinScreen(x, y) == WithinMargins(0, x, y)

\* The call made no pyautogui call and returned a failed result with an error.
RefusedUntouched ==
    /\ call.value.inputs = <<>>
    /\ ~call.value.result.raised
    /\ ~call.value.result.success
    /\ call.value.result.text # ""

\* C23: the Action Executor accepts a position exactly when 0 <= x < width
\* and 0 <= y < height: click, double_click and move at any other position,
\* and drag with either endpoint at any other position, return a failed
\* result with an error and make no physical input; at a position on the
\* screen the input is made.
C23_ExecutorBounds ==
    /\ call.fn \in {"click", "double_click", "move"} =>
          IF WithinScreen(call.args.x, call.args.y)
          THEN /\ Len(call.value.inputs) = 1
               /\ call.value.inputs[1].at = <<call.args.x, call.args.y>>
          ELSE RefusedUntouched
    /\ call.fn = "drag" =>
          IF /\ WithinScreen(call.args.start_x, call.args.start_y)
             /\ WithinScreen(call.args.end_x, call.args.end_y)
          THEN call.value.inputs # <<>>
          ELSE RefusedUntouched

\* A click at x = width, refused, and nothing done.
C23_Witness ==
    /\ call.fn = "click"
    /\ call.args = [x |-> screen_width, y |-> screen_height - 1]
    /\ RefusedUntouched

\* In the current step the oracle answered, the answer parsed into an action
\* with valid parameters other than done, and the Safety Governor, asked
\* once, admitted it.
StepPassedAllChecks ==
    /\ StepCalls("oracle") = 1
    /\ outcome # "llm_error"
    /\ pc \notin {"capture", "llm", "parse", "validate", "done_check", "safety"}
    /\ LET p == ParseLLMResponse(response)
       IN  /\ p.ok
           /\ ~ValidateActionParams(p.action, p.params).raised
           /\ ValidateActionParams(p.action, p.params).valid
           /\ p.action # "done"
    /\ StepCalls("safety") = 1
    /\ outcome # "denied"

\* The executor is called only at step 6, once, and only for an action the
\* Safety Governor admitted.
C24_ExecutorStep ==
    calls'.executor # calls.executor =>
       /\ pc = "execute"
       /\ calls'.executor = calls.executor + 1
       /\ StepCalls("executor") = 0
       /\ StepPassedAllChecks

\* C24: the executor is invoked exactly once in a step exactly when in that
\* step the oracle call succeeded, the response parsed, the parameters were
\* valid, the action is not done and the Safety Governor admitted it, and
\* zero times in every other step; a run that ends with done has invoked it
\* once for each action in its history.
C24_ExecutorOncePerAdmittedStep ==
    /\ [](StepCalls("executor") =
            IF StepPassedAllChecks /\ pc # "execute" THEN 1 ELSE 0)
    /\ []((pc = "returned" /\ outcome = "done") => calls.executor = Len(actions))
    /\ [][C24_ExecutorStep]_vars

\* click then done: two steps, one executor invocation.
C24_Witness ==
    /\ pc = "returned"
    /\ outcome = "done"
    /\ result.total_steps = 2
    /\ Len(actions) = 1
    /\ actions[1].action.action = "click"
    /\ calls.executor = 1

\* The lower-cased names of the keys handed to the last call.
LoweredKeys ==
    LET keys == Get(call.args.params, "keys", JList(<<>>)).l
    IN  { Lower(keys[i].s) : i \in {j \in 1..Len(keys) : keys[j].t = "str"} }

\* Every key handed to the last call is a key name.
KeysAreNames ==
    LET keys == Get(call.args.params, "keys", JList(<<>>)).l
    IN  \A i \in 1..Len(keys) : keys[i].t = "str"

\* C25: is_dangerous_action follows subset semantics: for key names it
\* returns true exactly when the action is hotkey and the lower-cased set of
\* its keys holds every key of command+q, command+delete,
\* command+shift+delete or control+alt+delete; it returns false for partial
\* and disjoint sets and for every action other than hotkey.
C25_DangerousSubset ==
    (call.fn = "is_dangerous_action" /\ KeysAreNames) =>
       /\ ~call.value.raised
       /\ call.value.dangerous <=>
             /\ call.args.action = "hotkey"
             /\ \/ {"command", "q"} \subseteq LoweredKeys
                \/ {"command", "delete"} \subseteq LoweredKeys
                \/ {"command", "shift", "delete"} \subseteq LoweredKeys
                \/ {"control", "alt", "delete"} \subseteq LoweredKeys

\* A superset of command+q in capitals is flagged.
C25_Witness ==
    /\ call.fn = "is_dangerous_action"
    /\ call.args.action = "hotkey"
    /\ call.args.params = [k \in {"keys"} |-> JList(<<JStr("Command"), JStr("shift"), JStr("Q")>>)]
    /\ call.value.dangerous

\* The least of a non-empty set of numbers.
Least(S) == CHOOSE n \in S : \A m \in S : n <= m

\* C26: of the objects decoded at the "{" positions of the text, nested ones
\* included, the parser takes the earliest in scan order that has an action
\* key; if none has one it takes the earliest decoded object and fails with
\* "missing action field"; if nothing decodes it fails with a ParseError.
C26_CandidateSelection ==
    call.fn = "parse_llm_response" =>
       LET attempts == DecodeAttempts(call.args.text)
           decoded == { i \in 1..Len(attempts) : ~attempts[i].bad }
           with_action == { i \in decoded : "action" \in DOMAIN attempts[i].obj }
       IN  IF decoded = {}
           THEN ~call.value.extracted.ok /\ ~call.value.parsed.ok
           ELSE IF with_action # {}
           THEN /\ call.value.extracted.ok
                /\ call.value.extracted.data = attempts[Least(with_action)].obj
                /\ call.value.parsed = ParseLLMResponse(<<attempts[Least(with_action)]>>)
           ELSE /\ call.value.extracted.ok
                /\ call.value.extracted.data = attempts[Least(decoded)].obj
                /\ call.value.parsed = ParseFail("Missing 'action' field in response")

\* An object without an action, then one whose nested object has one, then
\* one with an action: the nested object is taken.
C26_Witness ==
    /\ call.fn = "parse_llm_response"
    /\ Len(call.args.text) = 3
    /\ call.args.text[1].kind = "object"
    /\ call.args.text[1].value = [thought |-> JStr("thinking"), params |-> JDict(EmptyDict)]
    /\ call.args.text[2].kind = "object"
    /\ "action" \notin DOMAIN call.args.text[2].value
    /\ call.args.text[3].kind = "object"
    /\ "action" \in DOMAIN call.args.text[3].value
    /\ call.value.parsed.ok
    /\ call.value.parsed.action = "wait"

\* All required parameters of the action are present and correctly typed:
\* x and y integers, keys a list, direction one of the four directions in
\* any case.
WellFormed(kind, params) ==
    /\ \A i \in 1..Len(required_params(kind)) : required_params(kind)[i] \in DOMAIN params
    /\ kind \in {"click", "double_click", "move"} =>
          params["x"].t = "int" /\ params["y"].t = "int"
    /\ kind = "hotkey" => params["keys"].t = "list"
    /\ kind = "scroll" =>
          /\ params["direction"].t = "str"
          /\ Lower(params["direction"].s) \in {"up", "down", "left", "right"}

\* C27: for every action kind and every parameter mapping,
\* validate_action_params returns, and returns valid = true exactly when all
\* required parameters are present and correctly typed.
C27_ValidIffWellFormed ==
    call.fn = "validate_action_params" =>
       /\ ~call.value.raised
       /\ call.value.valid <=> WellFormed(call.args.action, call.args.params)

\* The outcomes of a step that ends the run.
RunEnding == {"done", "llm_error", "validate_raised", "execute_raised", "callback_raised"}

\* At the end of a step that goes on, the delay is applied once exactly when
\* step_delay > 0, the step is not the last one allowed and no stop is
\* requested; it is applied nowhere else, and a step goes on only through it.
C28_DelayStep ==
    /\ (pc = "delay" /\ pc' = "loop") =>
          calls'.sleep = calls.sleep +
             (IF config.step_delay > 0 /\ step < config.max_steps /\ ~stop_requested
              THEN 1 ELSE 0)
    /\ calls'.sleep # calls.sleep =>
          pc = "delay" /\ pc' = "loop" /\ StepCalls("sleep") = 0 /\ outcome \notin RunEnding
    /\ (pc \in StepPcs /\ pc' = "loop") => pc = "delay"

\* C28: the inter-step delay is applied exactly once at the end of step k
\* exactly when step k did not end the run, step_delay > 0, k < max_steps and
\* no stop was requested at that point; never after a done step or any other
\* step that ends the run, never after the final allowed step; a run that
\* ends with done at step k with a positive delay has slept k - 1 times.
C28_DelayOnceBetweenSteps ==
    /\ [](StepCalls("sleep") \in {0, 1})
    /\ []((outcome \in RunEnding \/ step >= config.max_steps \/ config.step_delay <= 0)
            => StepCalls("sleep") = 0)
    /\ []((pc = "returned" /\ outcome = "done" /\ config.step_delay > 0)
            => calls.sleep = step - 1)
    /\ [][C28_DelayStep]_vars

\* click then done with a positive delay: one sleep.
C28_Witness ==
    /\ pc = "returned"
    /\ outcome = "done"
    /\ config.step_delay > 0
    /\ step = 2
    /\ Len(actions) = 1
    /\ actions[1].action.action = "click"
    /\ calls.sleep = 1

\* The outcome of the current step is on record: its action is the newest of
\* the action history and the Safety Governor counted it.
OutcomeRecorded ==
    /\ outcome \in {"executed", "callback_raised"}
    /\ Len(actions) = Len(step_start.actions) + 1
    /\ actions[Len(actions)].action = action
    /\ Len(recorded) > 0
    /\ last_action_time = recorded[Len(recorded)]
    /\ Kinds(messages)[Len(messages)] = "Executed"

\* The callback is called only at its place in the step: once, after the
\* record, before the delay, with the step's number and action.
C29_CallbackStep ==
    calls'.callback # calls.callback =>
       /\ pc = "callback"
       /\ config.on_step
       /\ calls'.callback = calls.callback + 1
       /\ StepCalls("callback") = 0
       /\ StepCalls("executor") = 1
       /\ StepCalls("sleep") = 0
       /\ OutcomeRecorded
       /\ call' = [fn |-> "on_step", args |-> <<step, action>>, value |-> <<>>]
       /\ pc' = "delay" \/ (pc' = "returned" /\ outcome' = "callback_raised")

C30_DoneDefaults ==
    (/\ StepCalls("oracle") = 1
     /\ outcome # "llm_error"
     /\ pc \notin {"parse", "validate", "done_check"}
     /\ ParseLLMResponse(response).ok
     /\ ParseLLMResponse(response).action = "done") =>
        /\ pc = "returned"
        /\ status = "completed"
        /\ result.success = Get(ParseLLMResponse(response).params, "success", JBool(TRUE))
        /\ result.message =
              Get(ParseLLMResponse(response).params, "result", JStr("Task completed"))

\* The action in hand is a hotkey that is_dangerous_action flags.
DangerousHotkey ==
    /\ action # NoAction
    /\ action.action = "hotkey"
    /\ IsDangerousAction(action.action, action.params).dangerous

\* The safety gate treats every hotkey by the rate limit and the minimum
\* delay alone, and an admitted hotkey is handed to the executor.
C31_HotkeyStep ==
    /\ (pc = "safety" /\ pc' # "safety" /\ action.action = "hotkey") =>
          IF CheckRateLimit(config.safety, action_times, last_action_time, now).ok
          THEN pc' = "execute" /\ outcome' = outcome /\ messages' = messages
          ELSE pc' = "delay" /\ outcome' = "denied"
    /\ (pc = "execute" /\ pc' # "execute" /\ action.action = "hotkey") =>
          /\ calls'.executor = calls.executor + 1
          /\ pc' = "record"

\* C31: the dangerous-combination verdict never gates execution: for a hotkey
\* that is_dangerous_action flags, validate_action gives the verdict of the
\* rate-limit and minimum-delay checks, the same as for a hotkey it does not
\* flag, and the control loop executes it whenever those checks pass.
C31_DangerousNeverGated ==
    /\ [](DangerousHotkey =>
            /\ ValidateAction(config.safety, action_times, last_action_time, now,
                              action.action, action.params)
                 = CheckRateLimit(config.safety, action_times, last_action_time, now)
            /\ ValidateAction(config.safety, action_times, last_action_time, now,
                              action.action, action.params)
                 = ValidateAction(config.safety, action_times, last_action_time, now,
                                  "hotkey", ParseLLMResponse(RespHotkeyCopy).params))
    /\ [][C31_HotkeyStep]_vars

\* command+q was admitted, executed and recorded.
C31_Witness ==
    /\ DangerousHotkey
    /\ outcome = "executed"
    /\ StepCalls("executor") = 1
    /\ actions # <<>>
    /\ actions[Len(actions)].action = action
    /\ actions[Len(actions)].success

\* The executor invocations of the run that returned a result: all of them,
\* but the one that raised and ended the run.
ExecutorReturns == calls.executor - (IF outcome = "execute_raised" THEN 1 ELSE 0)

\* C32: in the AgentResult of a run, actions_executed is the number of
\* executor invocations of the run that returned a result, failed actuations
\* included; it is at most total_steps, and less when the run ended on done.
C32_ActionsExecuted ==
    pc = "returned" =>
       /\ result.actions_executed = ExecutorReturns
       /\ result.actions_executed = Len(actions)
       /\ result.actions_executed <= result.total_steps
       /\ outcome = "done" => result.actions_executed < result.total_steps
       /\ outcome \in {"parse_error", "invalid", "denied"} /\ step = 1 =>
             result.actions_executed = 0

\* A failed click, then done: one action executed in two steps.
C32_Witness ==
    /\ pc = "returned"
    /\ outcome = "done"
    /\ result.total_steps = 2
    /\ result.actions_executed = 1
    /\ ~actions[1].success

\* The window after a step only lost entries, all of them a minute old or
\* older, and kept every younger one in place.
OnlyOldRemoved ==
    action_times' = SelectSeq(action_times, LAMBDA t : now - t < Window)

\* record_action happens in the step after the executor returned, and there
\* alone; it appends the current time and sets the marker to it; the window
\* loses entries only in the rate-limit check.
C33_RecordStep ==
    /\ (pc = "execute" /\ pc' # "execute") =>
          \/ pc' = "record" /\ UNCHANGED safety_vars
          \/ pc' = "returned" /\ outcome' = "execute_raised" /\ UNCHANGED safety_vars
    /\ (pc = "record" /\ pc' # "record") =>
          /\ action_times' = Append(action_times, now)
          /\ last_action_time' = now
          /\ StepCalls("executor") = 1
    /\ (pc # "record" \/ pc' = "record") =>
          /\ last_action_time' = last_action_time
          /\ action_times' # action_times => pc = "safety" /\ OnlyOldRemoved

\* C33: record_action is called exactly once after each executor invocation
\* that returned, whether the action succeeded or failed, and at no other
\* time; each call appends the current time to the rolling window and sets
\* the last-action marker to the same time; entries are removed from the
\* window by the rate-limit check only.
C33_RateAccounting ==
    /\ [](Len(recorded) = ExecutorReturns - (IF pc = "record" THEN 1 ELSE 0))
    /\ [](recorded # <<>> => /\ last_action_time = recorded[Len(recorded)]
                             /\ IsTailOf(action_times, recorded))
    /\ [][C33_RecordStep]_vars

\* A failed action recorded after the check removed the entry of the first.
C33_Witness ==
    /\ outcome = "executed"
    /\ pc # "record"
    /\ ~exec_result.success
    /\ Len(recorded) = 2
    /\ action_times = <<now>>
    /\ last_action_time = now

\* The place of a message in a long run, by the answer that led to it.
KindRank(kind) ==
    CASE kind = "Parse error" -> 0
      [] kind = "Invalid action" -> 1
      [] kind = "Executed" -> 2
      [] kind = "Action blocked by safety" -> 3

\* The step under way, or just over, went on without ending the run.
StepWentOn == outcome \in {"parse_error", "invalid", "denied", "executed"}

\* C34: during a run every message in memory has role assistant; a step that
\* neither ends the run nor raises appends exactly one message, the oldest
\* being dropped beyond max_messages; so the history the oracle is given at
\* step k holds the messages of steps 1..k-1 in their order, cut to the last
\* max_messages of them.
C34_HistoryOfSteps ==
    /\ \A i \in 1..Len(messages) : messages[i].role = "assistant"
    /\ \A i \in 1..(Len(messages) - 1) :
          KindRank(messages[i].content.kind) <= KindRank(messages[i + 1].content.kind)
    /\ pc \in {"capture", "llm"} =>
          /\ messages = step_start.messages
          /\ Len(messages) = IF step - 1 < max_messages THEN step - 1 ELSE max_messages
    /\ StepWentOn =>
          /\ messages # <<>>
          /\ KindRank(messages[Len(messages)].content.kind) = LongRank(response) + 
                (IF outcome = "denied" THEN 1 ELSE 0)
          /\ SubSeq(messages, 1, Len(messages) - 1) =
                Newest(step_start.messages, max_messages - 1)
    /\ (pc \in StepPcs /\ ~StepWentOn) => messages = step_start.messages

\* The oracle is asked at step max_messages + 2: the message of step 1 is
\* gone, that of step 2 is the oldest, that of the last step the newest.
C34_Witness ==
    /\ pc = "llm"
    /\ step = max_messages + 2
    /\ Len(messages) = max_messages
    /\ messages[1].content.kind = "Invalid action"
    /\ messages[max_messages].content.kind = "Action blocked by safety"
    /\ response = RespWait

\* The Safety Governor would deny any action asked of it now.
GovernorWouldDeny ==
    ~CheckRateLimit(config.safety, action_times, last_action_time, now).ok

\* A validated done leaves the done check by returning COMPLETED, whatever
\* the governor would say, and touches neither the governor nor the history.
C35_DoneStep ==
    (pc = "done_check" /\ pc' # "done_check" /\ action.action = "done") =>
       /\ pc' = "returned"
       /\ status' = "completed"
       /\ outcome' = "done"
       /\ UNCHANGED <<safety_vars, memory_vars, recorded>>
       /\ calls' = calls

\* C35: a done action bypasses the Safety Governor: it is checked before the
\* safety gate, so a validated done ends the run COMPLETED even when the
\* rate limit or the minimum delay would deny any action at that moment, and
\* a done is never added to the rate-limit window or to the action history.
C35_DoneBypassesGovernor ==
    /\ [](outcome = "done" =>
            /\ pc = "returned"
            /\ status = "completed"
            /\ StepCalls("safety") = 0
            /\ StepCalls("executor") = 0
            /\ action_times = step_start.action_times
            /\ last_action_time = step_start.last_action_time
            /\ actions = step_start.actions)
    /\ [](\A i \in 1..Len(actions) : actions[i].action.action # "done")
    /\ [](Len(recorded) = Len(actions))
    /\ [][C35_DoneStep]_vars

\* done right after an executed action, with a ceiling of one per minute
\* already reached: COMPLETED all the same.
C35_Witness ==
    /\ outcome = "done"
    /\ pc = "returned"
    /\ status = "completed"
    /\ GovernorWouldDeny
    /\ Len(actions) = 1

\* The start of a run resets the stop flag and clears memory and leaves the
\* Safety Governor as the earlier run left it.
C36_StartStep ==
    /\ run_no' # run_no => (pc' = "start" /\ UNCHANGED <<safety_vars, recorded>>)
    /\ (pc = "start" /\ pc' # "start") =>
          /\ pc' = "loop"
          /\ ~stop_requested'
          /\ messages' = <<>> /\ actions' = <<>> /\ screenshots' = <<>>
          /\ UNCHANGED <<safety_vars, recorded>>

\* C36: run resets the stop flag and clears memory but not the Safety
\* Governor: the rolling window and the last-action marker are unchanged by
\* the start of the next run on the same Agent, so what earlier runs recorded
\* still counts in the checks of the next run.
C36_GovernorSurvivesRuns ==
    /\ [](recorded # <<>> => /\ last_action_time = recorded[Len(recorded)]
                             /\ IsTailOf(action_times, recorded)
                             /\ Len(recorded) >= Len(actions))
    /\ []((run_no = 2 /\ pc = "safety" /\ actions = <<>> /\ action_times # <<>>
            /\ config.safety.max_actions_per_minute = 1)
            => GovernorWouldDeny \/ now - action_times[1] >= Window)
    /\ [][C36_StartStep]_vars

\* The first action of the second run is denied for the action of the first.
C36_Witness ==
    /\ run_no = 2
    /\ step = 1
    /\ outcome = "denied"
    /\ actions = <<>>
    /\ Len(recorded) = 1
    /\ action_times = recorded
    /\ last_action_time = recorded[1]

\* The run returned from the statements after the loop.
ReturnedFromLoopExit ==
    /\ pc = "returned"
    /\ outcome \in {"none", "parse_error", "invalid", "denied", "executed"}

\* C37: when the loop exits with a stop requested, the step limit being
\* exhausted too or not, the stop request goes first: STOPPED, "Stopped by
\* user"; FAILED with "Max steps reached" comes from the loop exit only when
\* no stop was requested by then, the step limit being exhausted.
C37_StopBeforeLimit ==
    /\ (pc \in {"exit_status", "exit_result", "returned"} /\ stop_seen \in {"step", "boundary"}
        /\ outcome \in {"none", "parse_error", "invalid", "denied", "executed"}) =>
          /\ pc # "exit_status" => status = "stopped"
          /\ pc = "returned" => /\ result.message = JStr("Stopped by user")
                                /\ result.success = JBool(FALSE)
    /\ (ReturnedFromLoopExit /\ status = "failed"
        /\ result.message = JStr("Max steps reached")) =>
          /\ stop_seen \in {"no", "before"}
          /\ step = config.max_steps

\* Stop arrived during the last allowed step: STOPPED, not FAILED.
C37_Witness ==
    /\ ReturnedFromLoopExit
    /\ stop_seen = "step"
    /\ config.max_steps = 2
    /\ step = config.max_steps
    /\ status = "stopped"
    /\ result.message = JStr("Stopped by user")

\* The screenshot the run captured last, 0 (None) when it captured none: the
\* run's captures are the screenshots the memory holds, a run of up to
\* max_screenshots steps dropping none of them.
LastCaptured ==
    IF screenshots = <<>> THEN 0 ELSE screenshots[Len(screenshots)]

\* C38: the final_screenshot of every AgentResult is the screenshot the run
\* captured last: None exactly when no capture of the run succeeded (a run of
\* no steps included), and when the capture of step k raises it is the
\* screenshot of step k-1, with total_steps = k.
C38_FinalScreenshot ==
    pc = "returned" =>
       /\ result.final_screenshot = LastCaptured
       /\ result.final_screenshot = 0 <=> screenshots = <<>>
       /\ result.total_steps = 0 => result.final_screenshot = 0
       /\ outcome = "capture_raised" =>
             /\ result.total_steps = step
             /\ step >= 1
             /\ result.final_screenshot = step - 1
             /\ Len(screenshots) = step - 1
       /\ outcome # "capture_raised" => result.final_screenshot = result.total_steps

\* The capture of step 2 raised: the result carries the screenshot of step 1.
C38_Witness ==
    /\ pc = "returned"
    /\ outcome = "capture_raised"
    /\ result.total_steps = 2
    /\ result.final_screenshot = 1
    /\ screenshots = <<1>>

\* A step of the call of run() that is followed, not a change of thread.
SameThread == other' = other

\* What each statement that meets the shared memory does while two calls of
\* run() overlap: the preamble empties the memory whatever the other call has
\* written; the oracle is handed all the memory holds; a return counts the
\* records the memory holds.
C39_OverlapStep ==
    /\ (SameThread /\ pc = "start" /\ pc' = "loop") =>
          /\ messages' = <<>>
          /\ actions' = <<>>
          /\ screenshots' = <<>>
    /\ (SameThread /\ pc = "llm" /\ pc' = "parse") => history' = messages
    /\ (SameThread /\ pc # "returned" /\ pc' = "returned") =>
          result'.actions_executed = Len(actions)

\* C39: run() takes no lock: while two calls on one Agent overlap, the
\* preamble of either empties the memory whatever the other has written, the
\* oracle is handed whatever the memory holds and a return counts whatever
\* records it holds; the preamble may be taken while the other call is in
\* flight, and it is only when the calls do not overlap that a run counts
\* exactly the actions it executed and hands over only its own messages.
C39_OverlapUnsafe ==
    /\ [][C39_OverlapStep]_vars
    /\ [](pc = "start" => ENABLED RunReset)
    /\ []((other.pc = "idle" /\ pc = "returned") =>
            result.actions_executed = ExecutorReturns)
    /\ []((other.pc = "idle" /\ step >= 1) => Len(history) < step)

\* A run that executed an action returns actions_executed = 0, the other
\* call's preamble having emptied the memory, and the history it last handed
\* the oracle holds more messages than it had written itself.
C39_Witness ==
    /\ pc = "returned"
    /\ other.pc \notin {"idle", "start"}
    /\ ExecutorReturns = 1
    /\ result.actions_executed < ExecutorReturns
    /\ step = 2
    /\ Len(history) >= step

=============================================================================
